---------------------------- MODULE Spec2Model ----------------------------
(***************************************************************************)
(* A model of the numeric tower of Gauche (src/number.c): fixnums,         *)
(* bignums, exact rationals, IEEE floats and rectangular complex numbers,  *)
(* and the generic arithmetic built on them.                               *)
(*                                                                         *)
(* The machine word and the floating-point format are scaled down: a long  *)
(* has WordBits bits, a fixnum WordBits-2 bits (two tag bits, as in the    *)
(* source), and a double has a DblPrec-bit mantissa with exponents in      *)
(* -DblDenorm .. DblTop.  Every algorithm is written against these names,  *)
(* so each width can be raised without touching the operators.             *)
(***************************************************************************)
EXTENDS Integers, Sequences, FiniteSets, TLC

VARIABLES lhs, rhs, carg, rempArg, op, result, rem, chain, prev, third, text, radix, flags,
          longlimit, clampArg, oorArg, mode, pc, fill_i, iexpt10_tab, iexpt10_initialized,
          default_endian, default_endian_mutex, stores, binds, late, unset

\* the lazily initialised shared state and the threads that reach it
lazy == <<pc, fill_i, iexpt10_tab, iexpt10_initialized, default_endian, default_endian_mutex,
          stores, binds, late, unset>>

\* the variables of the callers that compare, convert, print and read
\* numbers, and the table longlimit[] of the parser
aux == <<third, text, radix, flags, longlimit, clampArg, oorArg, mode, lazy>>

vars == <<lhs, rhs, carg, rempArg, op, result, rem, chain, prev, aux>>

(***************************************************************************)
(* Widths of the scaled machine.                                           *)
(***************************************************************************)
WordBits == 8

DblPrec == 4

DblDenorm == 10

DblTop == 8

MaxChain == 1

(***************************************************************************)
(* Integer helpers.                                                        *)
(***************************************************************************)
RECURSIVE Pow2(_)
Pow2(n) == IF n <= 0 THEN 1 ELSE 2 * Pow2(n - 1)

IAbs(i) == IF i < 0 THEN -i ELSE i

ISign(i) == IF i < 0 THEN -1 ELSE IF i > 0 THEN 1 ELSE 0

\* C's integer division truncates toward zero; % takes the dividend's sign.
CDiv(a, b) == ISign(a) * ISign(b) * (IAbs(a) \div IAbs(b))

CRem(a, b) == a - b * CDiv(a, b)

\* floor(a / b) for b # 0
FloorDiv(a, b) == a \div b

\* index of the highest 1 bit of n > 0
RECURSIVE HighBit(_)
HighBit(n) == IF n <= 1 THEN 0 ELSE 1 + HighBit(n \div 2)

\* index of the lowest 1 bit of n > 0
RECURSIVE LowBit(_)
LowBit(n) == IF n % 2 = 1 THEN 0 ELSE 1 + LowBit(n \div 2)

RECURSIVE MathGcd(_, _)
MathGcd(a, b) == IF b = 0 THEN a ELSE MathGcd(b, a % b)

(***************************************************************************)
(* The machine long and the fixnum range.                                  *)
(***************************************************************************)
LONG_MAX == Pow2(WordBits - 1) - 1

LONG_MIN == -Pow2(WordBits - 1)

SCM_SMALL_INT_SIZE == WordBits - 3

SCM_SMALL_INT_MAX == Pow2(SCM_SMALL_INT_SIZE) - 1

SCM_SMALL_INT_MIN == -SCM_SMALL_INT_MAX - 1

SCM_SMALL_INT_FITS(k) == k <= SCM_SMALL_INT_MAX /\ k >= SCM_SMALL_INT_MIN

InLong(i) == LONG_MIN <= i /\ i <= LONG_MAX

\* two's complement wrap of i to n bits
WrapBits(i, n) == ((i + Pow2(n - 1)) % Pow2(n)) - Pow2(n - 1)

(***************************************************************************)
(* Objects.  A signalled error (Scm_Error never returns) is modelled as an *)
(* error object that every caller passes on.                               *)
(***************************************************************************)
ScmError(m) == [k |-> "Error", msg |-> m]

IsError(x) == x.k = "Error"

\* the int a comparison returns
Cmp(v) == [k |-> "Cmp", v |-> v]

\* SCM_MAKE_INT shifts the value left by the two tag bits: a value outside
\* the fixnum range loses its top bits.
SCM_MAKE_INT(i) == [k |-> "Fixint", v |-> WrapBits(i, WordBits - 2)]

SCM_INTP(x) == x.k = "Fixint"

SCM_BIGNUMP(x) == x.k = "Bignum"

SCM_RATNUMP(x) == x.k = "Ratnum"

SCM_FLONUMP(x) == x.k = "Flonum"

SCM_COMPNUMP(x) == x.k = "Compnum"

SCM_INTEGERP(x) == SCM_INTP(x) \/ SCM_BIGNUMP(x)

SCM_EXACTP(x) == SCM_INTEGERP(x) \/ SCM_RATNUMP(x)

SCM_INEXACTP(x) == SCM_FLONUMP(x) \/ SCM_COMPNUMP(x)

SCM_REALP(x) == SCM_EXACTP(x) \/ SCM_FLONUMP(x)

SCM_NUMBERP(x) == SCM_REALP(x) \/ SCM_COMPNUMP(x)

SCM_EXACT_ZERO_P(x) == SCM_INTP(x) /\ x.v = 0

SCM_EXACT_ONE_P(x) == SCM_INTP(x) /\ x.v = 1

(***************************************************************************)
(* IEEE doubles.  A double is finite (sign bit s, value m * 2^e), an       *)
(* infinity or the NaN.  Finite doubles are kept in the format's unique    *)
(* form: m < 2^DblPrec, DblEMin <= e <= DblEMax, and m < 2^(DblPrec-1)     *)
(* (a denormal or zero) only with e = DblEMin.  Equality of two records is *)
(* therefore bit identity.                                                 *)
(***************************************************************************)
DblEMin == -DblDenorm

DblEMax == DblTop

DFin(s, m, e) == [c |-> "fin", s |-> s, m |-> m, e |-> e]

DInf(s) == [c |-> "inf", s |-> s, m |-> 0, e |-> 0]

DNaN == [c |-> "nan", s |-> 0, m |-> 0, e |-> 0]

DZero(s) == DFin(s, 0, DblEMin)

SCM_IS_NAN(d) == d.c = "nan"

SCM_IS_INF(d) == d.c = "inf"

DIsFin(d) == d.c = "fin"

\* d == 0.0 in C: true of both zeros
DIsZero(d) == d.c = "fin" /\ d.m = 0

signbit(d) == d.s = 1

\* largest j with 2^j * D <= N, for N, D > 0
RECURSIVE FloorLog2Rat(_, _)
FloorLog2Rat(N, D) ==
    IF N >= D
    THEN (IF N >= 2 * D THEN 1 + FloorLog2Rat(N, 2 * D) ELSE 0)
    ELSE FloorLog2Rat(2 * N, D) - 1

(***************************************************************************)
(* The generic operations call one another; the public entry points are    *)
(* declared here and defined below, in the order of the source.  A call of *)
(* one of them is ScmCall of its name and its arguments, which runs the    *)
(* body of the function of that name.                                      *)
(***************************************************************************)
RECURSIVE ScmCall(_, _)

\* goto label, with the values of the variables the labelled block reads
Goto(label, args) == ScmCall(label, args)

RECURSIVE Scm_Quotient(_, _)
RECURSIVE Scm_Modulo(_, _, _)
RECURSIVE Scm_ReduceRational(_)
RECURSIVE Scm_Exact(_)
RECURSIVE Scm_Negate(_)
RECURSIVE Scm_Abs(_)
RECURSIVE Scm_MakeRational(_, _)
RECURSIVE Scm_Gcd(_, _)
RECURSIVE Scm_NumCmp(_, _)
RECURSIVE Scm_Add(_, _)
RECURSIVE Scm_Sub(_, _)
RECURSIVE Scm_Mul(_, _)
RECURSIVE Scm_GetDouble(_)

\* N / D rounded to the nearest integer, ties to the even one
RoundHalfEven(N, D) ==
    LET q0 == N \div D
        r0 == N % D
    IN  IF 2 * r0 > D \/ (2 * r0 = D /\ q0 % 2 = 1) THEN q0 + 1 ELSE q0

\* the double of mantissa q (at most 2^DblPrec) and exponent t, renormalised
DNormal(s, q, t) ==
    IF q = Pow2(DblPrec)
    THEN (IF t + 1 > DblEMax THEN DInf(s) ELSE DFin(s, Pow2(DblPrec - 1), t + 1))
    ELSE (IF t > DblEMax THEN DInf(s) ELSE DFin(s, q, t))

\* (N / D) * 2^e rounded to a mantissa in units of 2^t
DRoundAt(s, N, D, e, t) ==
    DNormal(s, RoundHalfEven(IF e >= t THEN N * Pow2(e - t) ELSE N,
                             IF e >= t THEN D ELSE D * Pow2(t - e)), t)

\* k is the exponent of the last kept bit of N / D
DRoundFrom(s, N, D, e, k) ==
    IF k + e + DblPrec <= DblEMin - 1 THEN DZero(s)
    ELSE DRoundAt(s, N, D, e, IF k + e < DblEMin THEN DblEMin ELSE k + e)

\* The double nearest to (-1)^s * (N / D) * 2^e, ties to the even mantissa,
\* overflowing to infinity: the rounding every IEEE operation performs.
round_to_double(s, N, D, e) ==
    IF N = 0 THEN DZero(s)
    ELSE DRoundFrom(s, N, D, e, FloorLog2Rat(N, D) - (DblPrec - 1))

DRound(s, N, D, e) == ScmCall("DRound", <<s, N, D, e>>)

\* the value of a finite double in units of 2^DblEMin
DUnits(d) == (IF d.s = 1 THEN -1 ELSE 1) * d.m * Pow2(d.e - DblEMin)

DNeg(d) == IF SCM_IS_NAN(d) THEN d ELSE [d EXCEPT !.s = 1 - d.s]

DAdd(a, b) ==
    IF SCM_IS_NAN(a) \/ SCM_IS_NAN(b) THEN DNaN
    ELSE IF SCM_IS_INF(a) THEN (IF SCM_IS_INF(b) /\ a.s # b.s THEN DNaN ELSE a)
    ELSE IF SCM_IS_INF(b) THEN b
    ELSE LET u == DUnits(a) + DUnits(b)
         IN  IF u = 0 THEN DZero(IF a.s = 1 /\ b.s = 1 THEN 1 ELSE 0)
             ELSE DRound(IF u < 0 THEN 1 ELSE 0, IAbs(u), 1, DblEMin)

DSub(a, b) == DAdd(a, DNeg(b))

DXor(a, b) == IF a.s = b.s THEN 0 ELSE 1

DMul(a, b) ==
    IF SCM_IS_NAN(a) \/ SCM_IS_NAN(b) THEN DNaN
    ELSE IF SCM_IS_INF(a) \/ SCM_IS_INF(b)
         THEN (IF DIsZero(a) \/ DIsZero(b) THEN DNaN ELSE DInf(DXor(a, b)))
    ELSE DRound(DXor(a, b), a.m * b.m, 1, a.e + b.e)

DDiv(a, b) ==
    IF SCM_IS_NAN(a) \/ SCM_IS_NAN(b) THEN DNaN
    ELSE IF SCM_IS_INF(a) THEN (IF SCM_IS_INF(b) THEN DNaN ELSE DInf(DXor(a, b)))
    ELSE IF SCM_IS_INF(b) THEN DZero(DXor(a, b))
    ELSE IF DIsZero(b) THEN (IF DIsZero(a) THEN DNaN ELSE DInf(DXor(a, b)))
    ELSE DRound(DXor(a, b), a.m, b.m, a.e - b.e)

\* (double)i for a C integer i
DFromInt(i) == DRound(IF i < 0 THEN 1 ELSE 0, IAbs(i), 1, 0)

\* a < b, a == b, a > b in C (all false when either is the NaN)
DLt(a, b) ==
    /\ ~SCM_IS_NAN(a) /\ ~SCM_IS_NAN(b)
    /\ IF SCM_IS_INF(a) THEN a.s = 1 /\ ~(SCM_IS_INF(b) /\ b.s = 1)
       ELSE IF SCM_IS_INF(b) THEN b.s = 0
       ELSE DUnits(a) < DUnits(b)

DEq(a, b) ==
    /\ ~SCM_IS_NAN(a) /\ ~SCM_IS_NAN(b)
    /\ IF SCM_IS_INF(a) \/ SCM_IS_INF(b) THEN a = b ELSE DUnits(a) = DUnits(b)

DGt(a, b) == DLt(b, a)

\* ldexp(d, n) = d * 2^n, rounded when the result is denormal
ldexp(d, n) == IF DIsFin(d) THEN DRound(d.s, d.m, 1, d.e + n) ELSE d

\* floor, ceil and fmod of C's libm on finite arguments
DIntUnits == Pow2(-DblEMin)

floor(d) ==
    IF ~DIsFin(d) \/ DIsZero(d) THEN d
    ELSE LET i == FloorDiv(DUnits(d), DIntUnits)
         IN  IF i = 0 THEN DZero(d.s) ELSE DFromInt(i)

ceil(d) == DNeg(floor(DNeg(d)))

fmod(x, y) ==
    IF ~DIsFin(x) \/ SCM_IS_NAN(y) \/ DIsZero(y) THEN DNaN
    ELSE IF SCM_IS_INF(y) THEN x
    ELSE LET u == CRem(DUnits(x), DUnits(y))
         IN  IF u = 0 THEN DZero(x.s) ELSE DRound(x.s, IAbs(u), 1, DblEMin)

\* rint under the default rounding mode: nearest integer, ties to even
roundeven(d) ==
    IF ~DIsFin(d) \/ DIsZero(d) THEN d
    ELSE LET u == IAbs(DUnits(d))
             q == u \div DIntUnits
             r == u % DIntUnits
             n == IF 2 * r > DIntUnits \/ (2 * r = DIntUnits /\ q % 2 = 1) THEN q + 1 ELSE q
         IN  IF n = 0 THEN DZero(d.s) ELSE DFromInt(IF d.s = 1 THEN -n ELSE n)

\* Scm_FlonumSign: -1 for a set sign bit, else 1
Scm_FlonumSign(d) == IF signbit(d) THEN -1 ELSE 1

Scm_MakeFlonum(d) == [k |-> "Flonum", d |-> d]

(***************************************************************************)
(* The bignum engine (bignum.c, consumed through its published operation   *)
(* set).  A bignum object holds any integer; the operations that compute a *)
(* new integer return it normalized, i.e. as a fixnum when it fits, while  *)
(* Scm_MakeBignumFromSI and Scm_MakeBignumFromUI always return a bignum.   *)
(***************************************************************************)
Scm_MakeBignumFromSI(i) == [k |-> "Bignum", v |-> i]

Scm_MakeBignumFromUI(i) == [k |-> "Bignum", v |-> i]

Scm_NormalizeBignum(b) == IF SCM_SMALL_INT_FITS(b.v) THEN SCM_MAKE_INT(b.v) ELSE b

SCM_BIGNUM_SIGN(b) == ISign(b.v)

Scm_BignumAdd(bx, by) == Scm_NormalizeBignum(Scm_MakeBignumFromSI(bx.v + by.v))

Scm_BignumSub(bx, by) == Scm_NormalizeBignum(Scm_MakeBignumFromSI(bx.v - by.v))

Scm_BignumMul(bx, by) == Scm_NormalizeBignum(Scm_MakeBignumFromSI(bx.v * by.v))

Scm_BignumAddSI(bx, y) == Scm_NormalizeBignum(Scm_MakeBignumFromSI(bx.v + y))

Scm_BignumSubSI(bx, y) == Scm_NormalizeBignum(Scm_MakeBignumFromSI(bx.v - y))

Scm_BignumMulSI(bx, y) == Scm_NormalizeBignum(Scm_MakeBignumFromSI(bx.v * y))

Scm_BignumNegate(bx) == Scm_NormalizeBignum(Scm_MakeBignumFromSI(-bx.v))

Scm_BignumCmp(bx, by) == ISign(bx.v - by.v)

\* quotient (normalized) and remainder (a long) of a bignum by a long;
\* a zero divisor is a division-by-zero error
Scm_BignumDivSI(bx, y) ==
    IF y = 0 THEN ScmError("division by zero")
    ELSE [k |-> "DivSI",
          q |-> Scm_NormalizeBignum(Scm_MakeBignumFromSI(CDiv(bx.v, y))),
          r |-> CRem(bx.v, y)]

Scm_BignumRemSI(bx, y) ==
    IF y = 0 THEN ScmError("division by zero") ELSE [k |-> "RemSI", r |-> CRem(bx.v, y)]

\* (quotient . remainder), both normalized
Scm_BignumDivRem(bx, by) ==
    [q |-> Scm_NormalizeBignum(Scm_MakeBignumFromSI(CDiv(bx.v, by.v))),
     r |-> Scm_NormalizeBignum(Scm_MakeBignumFromSI(CRem(bx.v, by.v)))]

Scm_BignumToDouble(bx) == DFromInt(bx.v)

\* floor(x * 2^cnt)
Scm_BignumAsh(bx, cnt) ==
    Scm_NormalizeBignum(Scm_MakeBignumFromSI(
        IF cnt >= 0 THEN bx.v * Pow2(cnt) ELSE FloorDiv(bx.v, Pow2(-cnt))))

\* bitwise and of two integers in two's complement
RECURSIVE BitAnd(_, _)
BitAnd(a, b) ==
    IF a = 0 \/ b = 0 THEN 0
    ELSE IF a = -1 THEN b
    ELSE IF b = -1 THEN a
    ELSE (a % 2) * (b % 2) + 2 * BitAnd(FloorDiv(a, 2), FloorDiv(b, 2))

Scm_BignumLogAnd(bx, by) == Scm_NormalizeBignum(Scm_MakeBignumFromSI(BitAnd(bx.v, by.v)))

\* the clamp policies: HI and LO are bits of the policy, BOTH has both
ClampHi(clamp) == clamp \in {"HI", "BOTH"}

ClampLo(clamp) == clamp \in {"LO", "BOTH"}

\* [v, oor, err]: the C value returned, the out-of-range flag as left in *oor
\* (oorp: a flag pointer was passed), and whether an error was signalled
CInt(v, oor) == [k |-> "CInt", v |-> v, oor |-> oor]

range_error(clamp, oorp) ==
    IF clamp # "ERROR" /\ oorp THEN CInt(0, TRUE) ELSE ScmError("argument out of range")

Scm_BignumToSI(bx, clamp, oorp) ==
    IF InLong(bx.v) THEN CInt(bx.v, FALSE)
    ELSE IF bx.v > LONG_MAX /\ ClampHi(clamp) THEN CInt(LONG_MAX, FALSE)
    ELSE IF bx.v < LONG_MIN /\ ClampLo(clamp) THEN CInt(LONG_MIN, FALSE)
    ELSE range_error(clamp, oorp)

ULONG_MAX == Pow2(WordBits) - 1

Scm_BignumToUI(bx, clamp, oorp) ==
    IF 0 <= bx.v /\ bx.v <= ULONG_MAX THEN CInt(bx.v, FALSE)
    ELSE IF bx.v > ULONG_MAX /\ ClampHi(clamp) THEN CInt(ULONG_MAX, FALSE)
    ELSE IF bx.v < 0 /\ ClampLo(clamp) THEN CInt(0, FALSE)
    ELSE range_error(clamp, oorp)

(***************************************************************************)
(* Constructors.                                                           *)
(***************************************************************************)
Scm_MakeInteger(i) ==
    IF i >= SCM_SMALL_INT_MIN /\ i <= SCM_SMALL_INT_MAX
    THEN SCM_MAKE_INT(i)
    ELSE Scm_MakeBignumFromSI(i)

Scm_MakeIntegerU(i) ==
    IF i <= SCM_SMALL_INT_MAX THEN SCM_MAKE_INT(i) ELSE Scm_MakeBignumFromUI(i)

Scm_MakeRatnum(numer, denom) ==
    IF ~SCM_INTEGERP(numer) THEN ScmError("numerator must be an exact integer")
    ELSE IF ~SCM_INTEGERP(denom) THEN ScmError("denominator must be an exact integer")
    ELSE IF SCM_EXACT_ZERO_P(denom) THEN ScmError("attempt to calculate a division by zero")
    ELSE [k |-> "Ratnum", numer |-> numer, denom |-> denom]

Scm_MakeCompnum(r, i) == [k |-> "Compnum", real |-> r, imag |-> i]

Scm_MakeComplex(r, i) ==
    IF DIsZero(i) THEN Scm_MakeFlonum(r) ELSE Scm_MakeCompnum(r, i)

SCM_NAN == Scm_MakeFlonum(DNaN)

SCM_POSITIVE_INFINITY == Scm_MakeFlonum(DInf(0))

SCM_NEGATIVE_INFINITY == Scm_MakeFlonum(DInf(1))

(***************************************************************************)
(* Predicates.                                                             *)
(***************************************************************************)
Scm_IntegerP(obj) ==
    IF SCM_INTP(obj) \/ SCM_BIGNUMP(obj) THEN TRUE
    ELSE IF SCM_RATNUMP(obj) THEN FALSE
    ELSE IF SCM_FLONUMP(obj)
         THEN (IF SCM_IS_INF(obj.d) \/ SCM_IS_NAN(obj.d) THEN FALSE
               ELSE DUnits(obj.d) % DIntUnits = 0)
    ELSE FALSE

\* -1, 0 or 1 for a real argument (the only kind its callers here pass)
Scm_Sign(obj) ==
    IF SCM_INTP(obj) THEN ISign(obj.v)
    ELSE IF SCM_BIGNUMP(obj) THEN SCM_BIGNUM_SIGN(obj)
    ELSE IF SCM_FLONUMP(obj)
         THEN (IF DIsZero(obj.d) THEN 0 ELSE IF DGt(obj.d, DZero(0)) THEN 1 ELSE -1)
    ELSE IF SCM_RATNUMP(obj)
         THEN (IF SCM_INTP(obj.numer) THEN ISign(obj.numer.v) ELSE SCM_BIGNUM_SIGN(obj.numer))
    ELSE 0

(***************************************************************************)
(* Integer division: Scm_Quotient returns the quotient and, through *rem,  *)
(* the remainder; both are returned here.                                  *)
(***************************************************************************)
QuoRem(q, r) == [k |-> "QuoRem", q |-> q, r |-> r]

\* if (d == 0.0) d = 0.0: a zero of either sign becomes +0.0
PlusZero(d) == IF DIsZero(d) THEN DZero(0) ELSE d

\* the DO_FLONUM block of Scm_Quotient: the remainder, once q is known
quotient_flonum_rem(rx, ry, q) ==
    QuoRem(Scm_MakeFlonum(q), Scm_MakeFlonum(PlusZero(roundeven(DSub(rx, DMul(q, ry))))))

\* the DO_FLONUM block of Scm_Quotient
quotient_flonum(rx, ry) ==
    IF DIsZero(ry) THEN ScmError("attempt to calculate a quotient by zero")
    ELSE quotient_flonum_rem(rx, ry, PlusZero(IF DGt(DMul(rx, ry), DZero(0))
                                              THEN floor(DDiv(rx, ry))
                                              ELSE ceil(DDiv(rx, ry))))

BadArg == ScmError("integer required")

scm_quotient(x, y) ==
    IF y = SCM_MAKE_INT(1)
    THEN (IF ~Scm_IntegerP(x) THEN BadArg ELSE QuoRem(x, SCM_MAKE_INT(0)))
    ELSE IF SCM_INTP(x)
    THEN (IF SCM_INTP(y)
          THEN (IF y.v = 0 THEN ScmError("attempt to calculate a quotient by zero")
                ELSE QuoRem(SCM_MAKE_INT(CDiv(x.v, y.v)), SCM_MAKE_INT(CRem(x.v, y.v))))
          ELSE IF SCM_BIGNUMP(y) THEN QuoRem(SCM_MAKE_INT(0), x)
          ELSE IF SCM_FLONUMP(y)
          THEN (IF ~DEq(y.d, floor(y.d)) THEN BadArg ELSE Goto("quotient_flonum", <<DFromInt(x.v), y.d>>))
          ELSE BadArg)
    ELSE IF SCM_BIGNUMP(x)
    THEN (IF SCM_INTP(y)
          THEN (LET qr == Scm_BignumDivSI(x, y.v)
                IN  IF IsError(qr) THEN qr ELSE QuoRem(qr.q, SCM_MAKE_INT(qr.r)))
          ELSE IF SCM_BIGNUMP(y)
          THEN (LET qr == Scm_BignumDivRem(x, y) IN QuoRem(qr.q, qr.r))
          ELSE IF SCM_FLONUMP(y)
          THEN (IF ~DEq(y.d, floor(y.d)) THEN BadArg
                ELSE Goto("quotient_flonum", <<Scm_BignumToDouble(x), y.d>>))
          ELSE BadArg)
    ELSE IF SCM_FLONUMP(x)
    THEN (IF ~DEq(x.d, floor(x.d)) THEN BadArg
          ELSE IF SCM_INTP(y) THEN Goto("quotient_flonum", <<x.d, DFromInt(y.v)>>)
          ELSE IF SCM_BIGNUMP(y) THEN Goto("quotient_flonum", <<x.d, Scm_BignumToDouble(y)>>)
          ELSE IF SCM_FLONUMP(y)
          THEN (IF ~DEq(y.d, floor(y.d)) THEN BadArg ELSE Goto("quotient_flonum", <<x.d, y.d>>))
          ELSE BadArg)
    ELSE BadArg

Scm_Quotient(x, y) == ScmCall("Scm_Quotient", <<x, y>>)

\* the DO_FLONUM block of Scm_Modulo: the sign adjustment of the remainder
modulo_flonum_adjust(rx, ry, remp, rem0) ==
    Scm_MakeFlonum(PlusZero(IF ~remp /\ ~DEq(rem0, DZero(0))
                               /\ ((DGt(rx, DZero(0)) /\ DLt(ry, DZero(0)))
                                   \/ (DLt(rx, DZero(0)) /\ DGt(ry, DZero(0))))
                            THEN DAdd(rem0, ry) ELSE rem0))

\* the DO_FLONUM block of Scm_Modulo
modulo_flonum(rx, ry, remp) ==
    IF DIsZero(ry) THEN ScmError("attempt to take a modulo or remainder by zero")
    ELSE modulo_flonum_adjust(rx, ry, remp, fmod(rx, ry))

scm_modulo(x, y, remp) ==
    IF SCM_INTP(x)
    THEN (IF SCM_INTP(y)
          THEN (IF y.v = 0 THEN ScmError("attempt to take a modulo or remainder by zero")
                ELSE LET r == CRem(x.v, y.v)
                     IN  IF ~remp /\ r # 0 /\ ((x.v > 0 /\ y.v < 0) \/ (x.v < 0 /\ y.v > 0))
                         THEN SCM_MAKE_INT(r + y.v)
                         ELSE SCM_MAKE_INT(r))
          ELSE IF SCM_BIGNUMP(y)
          THEN (IF remp THEN x
                ELSE IF (x.v < 0 /\ SCM_BIGNUM_SIGN(y) > 0) \/ (x.v > 0 /\ SCM_BIGNUM_SIGN(y) < 0)
                THEN Scm_BignumAddSI(y, x.v)
                ELSE x)
          ELSE IF SCM_FLONUMP(y)
          THEN (IF ~DEq(y.d, floor(y.d)) THEN BadArg ELSE Goto("modulo_flonum", <<DFromInt(x.v), y.d, remp>>))
          ELSE BadArg)
    ELSE IF SCM_BIGNUMP(x)
    THEN (IF SCM_INTP(y)
          THEN (LET iy == y.v
                    rs == Scm_BignumRemSI(x, iy)
                IN  IF IsError(rs) THEN rs
                    ELSE IF ~remp /\ rs.r # 0
                            /\ ((SCM_BIGNUM_SIGN(x) < 0 /\ iy > 0) \/ (SCM_BIGNUM_SIGN(x) > 0 /\ iy < 0))
                    THEN SCM_MAKE_INT(iy + rs.r)
                    ELSE SCM_MAKE_INT(rs.r))
          ELSE IF SCM_BIGNUMP(y)
          THEN (LET r == Scm_BignumDivRem(x, y).r
                IN  IF ~remp /\ r # SCM_MAKE_INT(0) /\ SCM_BIGNUM_SIGN(x) * SCM_BIGNUM_SIGN(y) < 0
                    THEN (IF SCM_BIGNUMP(r) THEN Scm_BignumAdd(y, r) ELSE Scm_BignumAddSI(y, r.v))
                    ELSE r)
          ELSE IF SCM_FLONUMP(y)
          THEN (IF ~DEq(y.d, floor(y.d)) THEN BadArg
                ELSE Goto("modulo_flonum", <<Scm_BignumToDouble(x), y.d, remp>>))
          ELSE BadArg)
    ELSE IF SCM_FLONUMP(x)
    THEN (IF ~DEq(x.d, floor(x.d)) THEN BadArg
          ELSE IF SCM_INTP(y) THEN Goto("modulo_flonum", <<x.d, DFromInt(y.v), remp>>)
          ELSE IF SCM_BIGNUMP(y) THEN Goto("modulo_flonum", <<x.d, Scm_BignumToDouble(y), remp>>)
          ELSE IF SCM_FLONUMP(y)
          THEN (IF ~DEq(y.d, floor(y.d)) THEN BadArg ELSE Goto("modulo_flonum", <<x.d, y.d, remp>>))
          ELSE BadArg)
    ELSE BadArg

Scm_Modulo(x, y, remp) == ScmCall("Scm_Modulo", <<x, y, remp>>)

(***************************************************************************)
(* Shifts and bit operations.                                              *)
(***************************************************************************)
AshLimit == 268435456

\* ~i on a long
CNot(i) == -i - 1

\* i >> n on a nonnegative long
CShr(i, n) == i \div Pow2(n)

\* Scm_Ash with the right shift of a negative fixnum done on its magnitude
ash_magnitude(x, cnt) ==
    IF cnt >= AshLimit THEN ScmError("ash: shift amount too big to handle")
    ELSE IF SCM_INTP(x)
    THEN (LET ix == x.v
          IN  IF cnt <= -WordBits THEN Scm_MakeInteger(IF ix < 0 THEN -1 ELSE 0)
              ELSE IF cnt < 0
              THEN (IF ix < 0 THEN Scm_MakeInteger(-CShr(-ix, -cnt))
                    ELSE Scm_MakeInteger(CShr(ix, -cnt)))
              ELSE IF cnt < SCM_SMALL_INT_SIZE
                      /\ (IF ix < 0 THEN -ix < CShr(SCM_SMALL_INT_MAX, cnt)
                          ELSE ix < CShr(SCM_SMALL_INT_MAX, cnt))
              THEN Scm_MakeInteger(ix * Pow2(cnt))
              ELSE Scm_BignumAsh(Scm_MakeBignumFromSI(ix), cnt))
    ELSE IF SCM_BIGNUMP(x) THEN Scm_BignumAsh(x, cnt)
    ELSE ScmError("exact integer required")

ash(x, cnt) ==
    IF cnt >= AshLimit THEN ScmError("ash: shift amount too big to handle")
    ELSE IF SCM_INTP(x)
    THEN (LET ix == x.v
          IN  IF cnt <= -WordBits THEN Scm_MakeInteger(IF ix < 0 THEN -1 ELSE 0)
              ELSE IF cnt < 0
              THEN (IF ix < 0 THEN Scm_MakeInteger(CNot(CShr(CNot(ix), -cnt)))
                    ELSE Scm_MakeInteger(CShr(ix, -cnt)))
              ELSE IF cnt < SCM_SMALL_INT_SIZE
                      /\ (IF ix < 0 THEN -ix < CShr(SCM_SMALL_INT_MAX, cnt)
                          ELSE ix < CShr(SCM_SMALL_INT_MAX, cnt))
              THEN Scm_MakeInteger(ix * Pow2(cnt))
              ELSE Scm_BignumAsh(Scm_MakeBignumFromSI(ix), cnt))
    ELSE IF SCM_BIGNUMP(x) THEN Scm_BignumAsh(x, cnt)
    ELSE ScmError("exact integer required")

Scm_Ash(x, cnt) == ScmCall("Scm_Ash", <<x, cnt>>)

\* the low limb of a bignum's magnitude
BignumLimb0(bx) == IAbs(bx.v) % Pow2(WordBits)

\* -1 when no bit is set
Scm_BitsHighest1(n) == IF n = 0 THEN -1 ELSE HighBit(n)

Scm_BitsLowest1(n) == IF n = 0 THEN -1 ELSE LowBit(n)

\* [dp, hi, lo]: whether |si| fits the mantissa, and its highest and lowest 1 bits
double_precision(si) ==
    LET i  == IAbs(si.v)
        hi == Scm_BitsHighest1(i)
        lo == Scm_BitsLowest1(i)
    IN  [dp |-> (hi - lo) < DblPrec, hi |-> hi, lo |-> lo]

\* the bit-th bit of |si|
abs_bittest(si, bit) == (IAbs(si.v) \div Pow2(bit)) % 2 = 1

(***************************************************************************)
(* Ratnums.                                                                *)
(***************************************************************************)
reduce_rational(rational) ==
    IF SCM_INTEGERP(rational) THEN rational
    ELSE IF ~SCM_RATNUMP(rational) THEN ScmError("exact rational number required")
    ELSE
    LET negated == Scm_Sign(rational.denom) < 0
        numer   == IF negated THEN Scm_Negate(rational.numer) ELSE rational.numer
        denom   == IF negated THEN Scm_Negate(rational.denom) ELSE rational.denom
    IN  IF SCM_EXACT_ONE_P(denom) THEN numer
        ELSE IF SCM_EXACT_ZERO_P(denom)
        THEN (LET s == Scm_Sign(numer)
              IN  IF s > 0 THEN SCM_POSITIVE_INFINITY
                  ELSE IF s < 0 THEN SCM_NEGATIVE_INFINITY
                  ELSE SCM_NAN)
        ELSE
        LET common == Scm_Gcd(numer, denom)
        IN  IF IsError(common) THEN common
            ELSE IF SCM_EXACT_ONE_P(common)
            THEN (IF negated THEN Scm_MakeRatnum(numer, denom) ELSE rational)
            ELSE
            LET qn == Scm_Quotient(numer, common)
                qd == Scm_Quotient(denom, common)
            IN  IF IsError(qn) THEN qn
                ELSE IF IsError(qd) THEN qd
                ELSE IF qd.q = SCM_MAKE_INT(1) THEN qn.q
                ELSE Scm_MakeRatnum(qn.q, qd.q)

Scm_ReduceRational(rational) == ScmCall("Scm_ReduceRational", <<rational>>)

make_rational(numer, denom) ==
    IF ~SCM_INTEGERP(numer) THEN ScmError("numerator must be an exact integer")
    ELSE IF ~SCM_INTEGERP(denom) THEN ScmError("denominator must be an exact integer")
    ELSE IF SCM_EXACT_ZERO_P(denom) THEN ScmError("attempt to calculate a division by zero")
    ELSE IF SCM_EXACT_ONE_P(denom) THEN numer
    ELSE IF SCM_EXACT_ZERO_P(numer) THEN SCM_MAKE_INT(0)
    ELSE Scm_ReduceRational(Scm_MakeRatnum(numer, denom))

Scm_MakeRational(numer, denom) == ScmCall("Scm_MakeRational", <<numer, denom>>)

Scm_NumEq(a0, a1) ==
    IF SCM_COMPNUMP(a0)
    THEN (IF SCM_COMPNUMP(a1) THEN DEq(a0.real, a1.real) /\ DEq(a0.imag, a1.imag) ELSE FALSE)
    ELSE IF SCM_COMPNUMP(a1) THEN FALSE
    ELSE IF (SCM_FLONUMP(a0) /\ SCM_IS_NAN(a0.d)) \/ (SCM_FLONUMP(a1) /\ SCM_IS_NAN(a1.d)) THEN FALSE
    ELSE Scm_NumCmp(a0, a1) = Cmp(0)

RatNumer(x) == IF SCM_RATNUMP(x) THEN x.numer ELSE x

RatDenom(x) == IF SCM_RATNUMP(x) THEN x.denom ELSE SCM_MAKE_INT(1)

\* the finish: label of Scm_RatnumAddSub
ratnum_addsub_finish(nx, ny, dr, subtract) ==
    Scm_MakeRational(IF subtract THEN Scm_Sub(nx, ny) ELSE Scm_Add(nx, ny), dr)

Scm_RatnumAddSub(x, y, subtract) ==
    LET nx == RatNumer(x)
        dx == RatDenom(x)
        ny == RatNumer(y)
        dy == RatDenom(y)
    IN  IF Scm_NumEq(dx, dy) THEN ratnum_addsub_finish(nx, ny, dx, subtract)
        ELSE
        LET gcd == IF SCM_EXACT_ONE_P(dx) \/ SCM_EXACT_ONE_P(dx) THEN SCM_MAKE_INT(1)
                   ELSE Scm_Gcd(dx, dy)
        IN  IF Scm_NumEq(dx, gcd)
            THEN ratnum_addsub_finish(Scm_Mul(Scm_Quotient(dy, dx).q, nx), ny, dy, subtract)
            ELSE IF Scm_NumEq(dy, gcd)
            THEN ratnum_addsub_finish(nx, Scm_Mul(Scm_Quotient(dx, dy).q, ny), dx, subtract)
            ELSE
            LET fx == Scm_Quotient(dx, gcd).q
                fy == Scm_Quotient(dy, gcd).q
            IN  ratnum_addsub_finish(Scm_Mul(nx, fy), Scm_Mul(ny, fx), Scm_Mul(dx, fy), subtract)

Scm_RatnumMulDiv(x, y, divide) ==
    LET nx == RatNumer(x)
        dx == RatDenom(x)
        ny == IF divide THEN RatDenom(y) ELSE RatNumer(y)
        dy == IF divide THEN RatNumer(y) ELSE RatDenom(y)
    IN  Scm_MakeRational(Scm_Mul(nx, ny), Scm_Mul(dx, dy))

(***************************************************************************)
(* Conversion to C integers and doubles.                                   *)
(***************************************************************************)
\* (long)v: the truncated value, or the "integer indefinite" value LONG_MIN
\* the conversion instruction yields when it does not fit
CastLong(v) ==
    IF ~DIsFin(v) THEN LONG_MIN
    ELSE LET i == CDiv(DUnits(v), DIntUnits) IN IF InLong(i) THEN i ELSE LONG_MIN

\* the return of (long)v or (u_long)v where the value of v, truncated, does
\* not fit the type: the conversion is undefined, and the caller gets one of
\* CastOutcomes
CCast(v, unsigned) == [k |-> "CCast", d |-> v, unsigned |-> unsigned]

\* the double v, truncated, is an integer from lo to hi
CastFits(v, lo, hi) ==
    DIsFin(v) /\ lo <= CDiv(DUnits(v), DIntUnits) /\ CDiv(DUnits(v), DIntUnits) <= hi

\* the flonum: label of Scm_GetIntegerClamp
clamp_flonum(v, clamp, oorp) ==
    IF DGt(v, DFromInt(LONG_MAX))
    THEN (IF ClampHi(clamp) THEN CInt(LONG_MAX, FALSE) ELSE range_error(clamp, oorp))
    ELSE IF DLt(v, DFromInt(LONG_MIN))
    THEN (IF ClampLo(clamp) THEN CInt(LONG_MIN, FALSE) ELSE range_error(clamp, oorp))
    ELSE IF CastFits(v, LONG_MIN, LONG_MAX) THEN CInt(CDiv(DUnits(v), DIntUnits), FALSE)
    ELSE CCast(v, FALSE)

Scm_GetIntegerClamp(obj, clamp, oorp) ==
    IF SCM_INTP(obj) THEN CInt(obj.v, FALSE)
    ELSE IF SCM_BIGNUMP(obj) THEN Scm_BignumToSI(obj, clamp, oorp)
    ELSE IF SCM_FLONUMP(obj) THEN clamp_flonum(obj.d, clamp, oorp)
    ELSE IF SCM_RATNUMP(obj) THEN clamp_flonum(Scm_GetDouble(obj), clamp, oorp)
    ELSE range_error(clamp, oorp)

\* the flonum: label of Scm_GetIntegerUClamp
uclamp_flonum(v, clamp, oorp) ==
    IF DGt(v, DFromInt(ULONG_MAX))
    THEN (IF ClampHi(clamp) THEN CInt(ULONG_MAX, FALSE) ELSE range_error(clamp, oorp))
    ELSE IF DLt(v, DZero(0))
    THEN (IF ClampLo(clamp) THEN CInt(0, FALSE) ELSE range_error(clamp, oorp))
    ELSE IF CastFits(v, 0, ULONG_MAX) THEN CInt(CDiv(DUnits(v), DIntUnits), FALSE)
    ELSE CCast(v, TRUE)

Scm_GetIntegerUClamp(obj, clamp, oorp) ==
    IF SCM_INTP(obj)
    THEN (IF obj.v < 0
          THEN (IF ClampLo(clamp) THEN CInt(0, FALSE) ELSE range_error(clamp, oorp))
          ELSE CInt(obj.v, FALSE))
    ELSE IF SCM_BIGNUMP(obj) THEN Scm_BignumToUI(obj, clamp, oorp)
    ELSE IF SCM_FLONUMP(obj) THEN uclamp_flonum(obj.d, clamp, oorp)
    ELSE IF SCM_RATNUMP(obj) THEN uclamp_flonum(Scm_GetDouble(obj), clamp, oorp)
    ELSE range_error(clamp, oorp)

Scm_LogNot(x) ==
    IF ~SCM_INTEGERP(x) THEN ScmError("exact integer required")
    ELSE IF SCM_INTP(x) THEN SCM_MAKE_INT(CNot(x.v))
    ELSE Scm_Negate(Scm_BignumAddSI(x, 1))

Scm_LogAnd(x, y) ==
    IF ~SCM_INTEGERP(x) \/ ~SCM_INTEGERP(y) THEN ScmError("exact integer required")
    ELSE IF SCM_INTP(x) /\ SCM_INTP(y) THEN SCM_MAKE_INT(BitAnd(x.v, y.v))
    ELSE IF SCM_INTP(x) /\ x.v >= 0 /\ SCM_BIGNUM_SIGN(y) >= 0
    THEN Scm_MakeInteger(BitAnd(x.v, BignumLimb0(y)))
    ELSE IF SCM_BIGNUMP(x) /\ SCM_INTP(y) /\ y.v >= 0 /\ SCM_BIGNUM_SIGN(x) >= 0
    THEN Scm_MakeInteger(BitAnd(y.v, BignumLimb0(x)))
    ELSE Scm_BignumLogAnd(x, y)

\* Scm_LogNot(Scm_Sub(Scm_Ash(SCM_MAKE_INT(1), shift-1076-1), SCM_MAKE_INT(1)))
ratnum_low_mask(shift) ==
    Scm_LogNot(Scm_Sub(Scm_Ash(SCM_MAKE_INT(1), shift - (DblDenorm + 2) - 1), SCM_MAKE_INT(1)))

\* Scm_GetDouble on a ratnum, fullpath: the quotient with the digits below the
\* denormalized range masked out (shift > 1076 in the source)
ratnum_denorm_mask(quo, shift) ==
    IF shift > DblDenorm + 2
    THEN (IF Scm_Sign(quo) < 0
          THEN Scm_Negate(Scm_LogAnd(Scm_Negate(quo), ratnum_low_mask(shift)))
          ELSE Scm_LogAnd(quo, ratnum_low_mask(shift)))
    ELSE quo

\* fullpath: the quotient needs rounding at the bit below the mantissa, whose
\* weight is mask; roundup is decided by the remainder and the lower bits
ratnum_round_up(quo, remainder, mask) ==
    IF remainder # SCM_MAKE_INT(0) THEN TRUE
    ELSE Scm_LogAnd(IF Scm_Sign(quo) < 0 THEN Scm_Negate(quo) ELSE quo,
                    Scm_Sub(mask, SCM_MAKE_INT(1))) # SCM_MAKE_INT(0)

ratnum_round_mask(quo, remainder, shift, q_hi, mask) ==
    IF ratnum_round_up(quo, remainder, mask)
    THEN ldexp(Scm_GetDouble(IF Scm_Sign(quo) < 0 THEN Scm_Sub(quo, mask)
                             ELSE Scm_Add(quo, mask)), -shift)
    ELSE IF ~abs_bittest(quo, q_hi - (DblPrec - 1))
    THEN ldexp(Scm_GetDouble(IF Scm_Sign(quo) < 0 THEN Scm_Add(quo, mask)
                             ELSE Scm_Sub(quo, mask)), -shift)
    ELSE ldexp(Scm_GetDouble(quo), -shift)

\* fullpath, from the masked quotient quo, with q = double_precision(quo)
ratnum_round_q(quo, remainder, shift, q) ==
    IF q.dp THEN ldexp(Scm_GetDouble(quo), -shift)
    ELSE IF ~abs_bittest(quo, q.hi - DblPrec) THEN ldexp(Scm_GetDouble(quo), -shift)
    ELSE ratnum_round_mask(quo, remainder, shift, q.hi,
                           Scm_Ash(SCM_MAKE_INT(1), q.hi - DblPrec))

ratnum_round(quo, remainder, shift) ==
    ratnum_round_q(quo, remainder, shift, double_precision(quo))

\* fullpath, from the quotient and remainder qr of the shifted numerator
ratnum_fullpath(qr, shift) ==
    ratnum_round(ratnum_denorm_mask(qr.q, shift), qr.r, shift)

\* Scm_GetDouble on a ratnum, n and d being double_precision of its parts
ratnum_to_double(numer, denom, n, d) ==
    IF n.dp /\ d.dp /\ ~SCM_IS_INF(Scm_GetDouble(numer)) /\ ~SCM_IS_INF(Scm_GetDouble(denom))
    THEN DDiv(Scm_GetDouble(numer), Scm_GetDouble(denom))
    ELSE IF n.hi - d.hi < DblPrec + 1
    THEN ratnum_fullpath(Scm_Quotient(Scm_Ash(numer, (DblPrec + 1) - (n.hi - d.hi)), denom),
                         (DblPrec + 1) - (n.hi - d.hi))
    ELSE ratnum_fullpath(Scm_Quotient(numer, denom), 0)

get_double(obj) ==
    IF SCM_FLONUMP(obj) THEN obj.d
    ELSE IF SCM_INTP(obj) THEN DFromInt(obj.v)
    ELSE IF SCM_BIGNUMP(obj) THEN Scm_BignumToDouble(obj)
    ELSE IF SCM_RATNUMP(obj)
    THEN ratnum_to_double(obj.numer, obj.denom,
                          double_precision(obj.numer), double_precision(obj.denom))
    ELSE DZero(0)

Scm_GetDouble(obj) == ScmCall("Scm_GetDouble", <<obj>>)

(***************************************************************************)
(* Unary operators.                                                        *)
(***************************************************************************)
RECURSIVE ISqrtR(_, _, _)
ISqrtR(n, lo, hi) ==
    IF lo >= hi THEN lo
    ELSE LET mid == (lo + hi + 1) \div 2
         IN  IF mid * mid <= n THEN ISqrtR(n, mid, hi) ELSE ISqrtR(n, lo, mid - 1)

\* sqrt() of libm, correctly rounded: the root of the mantissa, carried to
\* DblPrec + 1 further bits with a sticky bit, is rounded once
sqrt(x) ==
    IF SCM_IS_NAN(x) THEN DNaN
    ELSE IF DIsZero(x) THEN x
    ELSE IF x.s = 1 THEN DNaN
    ELSE IF SCM_IS_INF(x) THEN x
    ELSE LET odd == x.e % 2
             u   == x.m * Pow2(odd) * Pow2(2 * (DblPrec + 1))
             r   == ISqrtR(u, 0, 46340)
             st  == IF r * r = u THEN 0 ELSE 1
         IN  DRound(0, 2 * r + st, 2, (x.e - odd) \div 2 - (DblPrec + 1))

scm_abs(obj) ==
    IF SCM_INTP(obj)
    THEN (IF obj.v < 0
          THEN (IF obj.v = SCM_SMALL_INT_MIN THEN Scm_MakeBignumFromSI(-obj.v)
                ELSE SCM_MAKE_INT(-obj.v))
          ELSE obj)
    ELSE IF SCM_BIGNUMP(obj)
    THEN (IF SCM_BIGNUM_SIGN(obj) < 0 THEN [obj EXCEPT !.v = -obj.v] ELSE obj)
    ELSE IF SCM_FLONUMP(obj)
    THEN (IF signbit(obj.d) THEN Scm_MakeFlonum(DNeg(obj.d)) ELSE obj)
    ELSE IF SCM_RATNUMP(obj)
    THEN (IF Scm_Sign(obj.numer) < 0
          THEN Scm_MakeRational(Scm_Negate(obj.numer), obj.denom)
          ELSE obj)
    ELSE IF SCM_COMPNUMP(obj)
    THEN Scm_MakeFlonum(sqrt(DAdd(DMul(obj.real, obj.real), DMul(obj.imag, obj.imag))))
    ELSE ScmError("number required")

Scm_Abs(obj) == ScmCall("Scm_Abs", <<obj>>)

negate(obj) ==
    IF SCM_INTP(obj)
    THEN (IF obj.v = SCM_SMALL_INT_MIN THEN Scm_MakeBignumFromSI(-obj.v)
          ELSE SCM_MAKE_INT(-obj.v))
    ELSE IF SCM_BIGNUMP(obj) THEN Scm_BignumNegate(obj)
    ELSE IF SCM_FLONUMP(obj) THEN Scm_MakeFlonum(DNeg(obj.d))
    ELSE IF SCM_RATNUMP(obj) THEN Scm_MakeRational(Scm_Negate(obj.numer), obj.denom)
    ELSE IF SCM_COMPNUMP(obj) THEN Scm_MakeCompnum(DNeg(obj.real), DNeg(obj.imag))
    ELSE ScmError("operation - is not defined on object")

\* negate with the fixnum branch made by SCM_MAKE_INT, which does not promote
\* -SCM_SMALL_INT_MIN to a bignum
negate_make_int(obj) == IF SCM_INTP(obj) THEN SCM_MAKE_INT(-obj.v) ELSE ScmCall("Scm_Negate", <<obj>>)

Scm_Negate(obj) == ScmCall("Scm_Negate", <<obj>>)

reciprocal(obj) ==
    IF SCM_INTP(obj) \/ SCM_BIGNUMP(obj) THEN Scm_MakeRational(SCM_MAKE_INT(1), obj)
    ELSE IF SCM_FLONUMP(obj) THEN Scm_MakeFlonum(DDiv(DFromInt(1), obj.d))
    ELSE IF SCM_RATNUMP(obj) THEN Scm_MakeRational(obj.denom, obj.numer)
    ELSE IF SCM_COMPNUMP(obj)
    THEN (LET r  == obj.real
              i  == obj.imag
              d  == DAdd(DMul(r, r), DMul(i, i))
              r1 == DDiv(r, d)
              i1 == DDiv(DNeg(i), d)
          IN  Scm_MakeComplex(r1, i1))
    ELSE ScmError("operation / is not defined on object")

Scm_Reciprocal(obj) == ScmCall("Scm_Reciprocal", <<obj>>)

inexact(obj) ==
    IF SCM_INTP(obj) THEN Scm_MakeFlonum(DFromInt(obj.v))
    ELSE IF SCM_BIGNUMP(obj) THEN Scm_MakeFlonum(Scm_BignumToDouble(obj))
    ELSE IF SCM_RATNUMP(obj) THEN Scm_MakeFlonum(Scm_GetDouble(obj))
    ELSE IF ~SCM_FLONUMP(obj) /\ ~SCM_COMPNUMP(obj) THEN ScmError("number required")
    ELSE obj

Scm_Inexact(obj) == ScmCall("Scm_Inexact", <<obj>>)

(***************************************************************************)
(* Addition and subtraction.                                               *)
(***************************************************************************)
Scm_RatnumAdd(x, y) == ScmCall("Scm_RatnumAddSub", <<x, y, FALSE>>)

Scm_RatnumSub(x, y) == ScmCall("Scm_RatnumAddSub", <<x, y, TRUE>>)

Scm_RatnumMul(x, y) == ScmCall("Scm_RatnumMulDiv", <<x, y, FALSE>>)

Scm_RatnumDiv(x, y) == ScmCall("Scm_RatnumMulDiv", <<x, y, TRUE>>)

scm_add(arg0, arg1) ==
    IF SCM_INTP(arg0)
    THEN (IF SCM_INTP(arg1) THEN Scm_MakeInteger(arg0.v + arg1.v)
          ELSE IF SCM_BIGNUMP(arg1)
          THEN (IF SCM_EXACT_ZERO_P(arg0) THEN arg1 ELSE Scm_BignumAddSI(arg1, arg0.v))
          ELSE IF SCM_RATNUMP(arg1)
          THEN (IF SCM_EXACT_ZERO_P(arg0) THEN arg1 ELSE Scm_RatnumAdd(arg0, arg1))
          ELSE IF SCM_FLONUMP(arg1)
          THEN (IF SCM_EXACT_ZERO_P(arg0) THEN arg1
                ELSE Scm_MakeFlonum(DAdd(DFromInt(arg0.v), arg1.d)))
          ELSE IF SCM_COMPNUMP(arg1)
          THEN (IF SCM_EXACT_ZERO_P(arg0) THEN arg1
                ELSE Scm_MakeComplex(DAdd(DFromInt(arg0.v), arg1.real), arg1.imag))
          ELSE ScmError("operation + is not defined between objects"))
    ELSE IF SCM_BIGNUMP(arg0)
    THEN (IF SCM_INTP(arg1)
          THEN (IF SCM_EXACT_ZERO_P(arg1) THEN arg0 ELSE Scm_BignumAddSI(arg0, arg1.v))
          ELSE IF SCM_BIGNUMP(arg1) THEN Scm_BignumAdd(arg0, arg1)
          ELSE IF SCM_RATNUMP(arg1) THEN Scm_RatnumAdd(arg0, arg1)
          ELSE IF SCM_FLONUMP(arg1) THEN Scm_MakeFlonum(DAdd(Scm_GetDouble(arg0), arg1.d))
          ELSE IF SCM_COMPNUMP(arg1)
          THEN Scm_MakeComplex(DAdd(Scm_GetDouble(arg0), arg1.real), arg1.imag)
          ELSE ScmError("operation + is not defined between objects"))
    ELSE IF SCM_RATNUMP(arg0)
    THEN (IF SCM_INTP(arg1)
          THEN (IF SCM_EXACT_ZERO_P(arg1) THEN arg0 ELSE Scm_RatnumAdd(arg0, arg1))
          ELSE IF SCM_BIGNUMP(arg1) \/ SCM_RATNUMP(arg1) THEN Scm_RatnumAdd(arg0, arg1)
          ELSE IF SCM_FLONUMP(arg1) THEN Scm_MakeFlonum(DAdd(Scm_GetDouble(arg0), arg1.d))
          ELSE IF SCM_COMPNUMP(arg1)
          THEN Scm_MakeComplex(DAdd(Scm_GetDouble(arg0), arg1.real), arg1.imag)
          ELSE ScmError("operation + is not defined between objects"))
    ELSE IF SCM_FLONUMP(arg0)
    THEN (IF SCM_INTP(arg1)
          THEN (IF SCM_EXACT_ZERO_P(arg1) THEN arg0
                ELSE Scm_MakeFlonum(DAdd(arg0.d, DFromInt(arg1.v))))
          ELSE IF SCM_BIGNUMP(arg1) \/ SCM_RATNUMP(arg1)
          THEN Scm_MakeFlonum(DAdd(arg0.d, Scm_GetDouble(arg1)))
          ELSE IF SCM_FLONUMP(arg1)
          THEN (IF DEq(arg0.d, DZero(0)) THEN arg1
                ELSE IF DEq(arg1.d, DZero(0)) THEN arg0
                ELSE Scm_MakeFlonum(DAdd(arg0.d, arg1.d)))
          ELSE IF SCM_COMPNUMP(arg1)
          THEN (IF DEq(arg0.d, DZero(0)) THEN arg1
                ELSE Scm_MakeComplex(DAdd(arg0.d, arg1.real), arg1.imag))
          ELSE ScmError("operation + is not defined between objects"))
    ELSE IF SCM_COMPNUMP(arg0)
    THEN (IF SCM_INTP(arg1)
          THEN (IF SCM_EXACT_ZERO_P(arg1) THEN arg0
                ELSE Scm_MakeComplex(DAdd(arg0.real, DFromInt(arg1.v)), arg0.imag))
          ELSE IF SCM_BIGNUMP(arg1) \/ SCM_RATNUMP(arg1)
          THEN Scm_MakeComplex(DAdd(arg0.real, Scm_GetDouble(arg1)), arg0.imag)
          ELSE IF SCM_FLONUMP(arg1)
          THEN (IF DEq(arg1.d, DZero(0)) THEN arg0
                ELSE Scm_MakeComplex(DAdd(arg0.real, arg1.d), arg0.imag))
          ELSE IF SCM_COMPNUMP(arg1)
          THEN Scm_MakeComplex(DAdd(arg0.real, arg1.real), DAdd(arg0.imag, arg1.imag))
          ELSE ScmError("operation + is not defined between objects"))
    ELSE ScmError("operation + is not defined between objects")

Scm_Add(arg0, arg1) == ScmCall("Scm_Add", <<arg0, arg1>>)

scm_sub(arg0, arg1) ==
    IF SCM_INTP(arg0)
    THEN (IF SCM_INTP(arg1) THEN Scm_MakeInteger(arg0.v - arg1.v)
          ELSE IF SCM_BIGNUMP(arg1) THEN Scm_BignumSub(Scm_MakeBignumFromSI(arg0.v), arg1)
          ELSE IF SCM_RATNUMP(arg1) THEN Scm_RatnumSub(arg0, arg1)
          ELSE IF SCM_FLONUMP(arg1) THEN Scm_MakeFlonum(DSub(DFromInt(arg0.v), arg1.d))
          ELSE IF SCM_COMPNUMP(arg1)
          THEN Scm_MakeComplex(DSub(DFromInt(arg0.v), arg1.real), DNeg(arg1.imag))
          ELSE ScmError("operation - is not defined between objects"))
    ELSE IF SCM_BIGNUMP(arg0)
    THEN (IF SCM_INTP(arg1)
          THEN (IF SCM_EXACT_ZERO_P(arg1) THEN arg0 ELSE Scm_BignumSubSI(arg0, arg1.v))
          ELSE IF SCM_BIGNUMP(arg1) THEN Scm_BignumSub(arg0, arg1)
          ELSE IF SCM_RATNUMP(arg1) THEN Scm_RatnumSub(arg0, arg1)
          ELSE IF SCM_FLONUMP(arg1) THEN Scm_MakeFlonum(DSub(Scm_GetDouble(arg0), arg1.d))
          ELSE IF SCM_COMPNUMP(arg1)
          THEN Scm_MakeComplex(DSub(Scm_GetDouble(arg0), arg1.real), DNeg(arg1.imag))
          ELSE ScmError("operation - is not defined between objects"))
    ELSE IF SCM_RATNUMP(arg0)
    THEN (IF SCM_INTP(arg1)
          THEN (IF SCM_EXACT_ZERO_P(arg1) THEN arg0 ELSE Scm_RatnumSub(arg0, arg1))
          ELSE IF SCM_BIGNUMP(arg1) \/ SCM_RATNUMP(arg1) THEN Scm_RatnumSub(arg0, arg1)
          ELSE IF SCM_FLONUMP(arg1)
          THEN (IF DEq(arg1.d, DZero(0)) THEN arg0
                ELSE Scm_MakeFlonum(DSub(Scm_GetDouble(arg0), arg1.d)))
          ELSE IF SCM_COMPNUMP(arg1)
          THEN Scm_MakeComplex(DSub(Scm_GetDouble(arg0), arg1.real), DNeg(arg1.imag))
          ELSE ScmError("operation - is not defined between objects"))
    ELSE IF SCM_FLONUMP(arg0)
    THEN (IF SCM_INTP(arg1)
          THEN (IF SCM_EXACT_ZERO_P(arg1) THEN arg0
                ELSE Scm_MakeFlonum(DSub(arg0.d, DFromInt(arg1.v))))
          ELSE IF SCM_BIGNUMP(arg1) \/ SCM_RATNUMP(arg1)
          THEN Scm_MakeFlonum(DSub(arg0.d, Scm_GetDouble(arg1)))
          ELSE IF SCM_FLONUMP(arg1)
          THEN (IF DEq(arg1.d, DZero(0)) THEN arg0
                ELSE Scm_MakeFlonum(DSub(arg0.d, arg1.d)))
          ELSE IF SCM_COMPNUMP(arg1)
          THEN Scm_MakeComplex(DSub(arg0.d, arg1.real), DNeg(arg1.imag))
          ELSE ScmError("operation - is not defined between objects"))
    ELSE IF SCM_COMPNUMP(arg0)
    THEN (IF SCM_INTP(arg1)
          THEN (IF SCM_EXACT_ZERO_P(arg1) THEN arg0
                ELSE Scm_MakeComplex(DSub(arg0.real, DFromInt(arg1.v)), arg0.imag))
          ELSE IF SCM_BIGNUMP(arg1) \/ SCM_RATNUMP(arg1)
          THEN Scm_MakeComplex(DSub(arg0.real, Scm_GetDouble(arg1)), arg0.imag)
          ELSE IF SCM_FLONUMP(arg1)
          THEN (IF DEq(arg1.d, DZero(0)) THEN arg0
                ELSE Scm_MakeComplex(DSub(arg0.real, Scm_GetDouble(arg1)), arg0.imag))
          ELSE IF SCM_COMPNUMP(arg1)
          THEN Scm_MakeComplex(DSub(arg0.real, arg1.real), DSub(arg0.imag, arg1.imag))
          ELSE ScmError("operation - is not defined between objects"))
    ELSE ScmError("operation - is not defined between objects")

Scm_Sub(arg0, arg1) == ScmCall("Scm_Sub", <<arg0, arg1>>)

(***************************************************************************)
(* Multiplication.                                                         *)
(***************************************************************************)
\* SMULOV(k, ov, v0, v1): the product in a long and its overflow flag
SMULOV(v0, v1) == [k |-> WrapBits(v0 * v1, WordBits), ov |-> ~InLong(v0 * v1)]

scm_mul(arg0, arg1) ==
    IF SCM_INTP(arg0)
    THEN (IF SCM_INTP(arg1)
          THEN (LET m == SMULOV(arg0.v, arg1.v)
                IN  IF m.ov \/ ~SCM_SMALL_INT_FITS(m.k)
                    THEN Scm_BignumMulSI(Scm_MakeBignumFromSI(arg0.v), arg1.v)
                    ELSE Scm_MakeInteger(m.k))
          ELSE IF SCM_BIGNUMP(arg1)
          THEN (IF SCM_EXACT_ZERO_P(arg0) THEN arg0
                ELSE IF arg0 = SCM_MAKE_INT(1) THEN arg1
                ELSE Scm_BignumMulSI(arg1, arg0.v))
          ELSE IF SCM_RATNUMP(arg1)
          THEN (IF SCM_EXACT_ZERO_P(arg0) THEN arg0
                ELSE IF arg0 = SCM_MAKE_INT(1) THEN arg1
                ELSE Scm_RatnumMul(arg0, arg1))
          ELSE IF SCM_FLONUMP(arg1)
          THEN (IF SCM_EXACT_ZERO_P(arg0) THEN arg0
                ELSE IF arg0 = SCM_MAKE_INT(1) THEN arg1
                ELSE Scm_MakeFlonum(DMul(DFromInt(arg0.v), arg1.d)))
          ELSE IF SCM_COMPNUMP(arg1)
          THEN (IF SCM_EXACT_ZERO_P(arg0) THEN arg0
                ELSE IF arg0 = SCM_MAKE_INT(1) THEN arg1
                ELSE Scm_MakeComplex(DMul(DFromInt(arg0.v), arg1.real),
                                     DMul(DFromInt(arg0.v), arg1.imag)))
          ELSE ScmError("operation * is not defined between objects"))
    ELSE IF SCM_BIGNUMP(arg0)
    THEN (IF SCM_INTP(arg1)
          THEN (IF SCM_EXACT_ZERO_P(arg1) THEN arg1
                ELSE IF SCM_EXACT_ONE_P(arg1) THEN arg0
                ELSE Scm_BignumMulSI(arg0, arg1.v))
          ELSE IF SCM_BIGNUMP(arg1) THEN Scm_BignumMul(arg0, arg1)
          ELSE IF SCM_RATNUMP(arg1) THEN Scm_RatnumMul(arg0, arg1)
          ELSE IF SCM_FLONUMP(arg1) THEN Scm_MakeFlonum(DMul(Scm_GetDouble(arg0), arg1.d))
          ELSE IF SCM_COMPNUMP(arg1)
          THEN (LET z == Scm_GetDouble(arg0)
                IN  Scm_MakeComplex(DMul(z, arg1.real), DMul(z, arg1.imag)))
          ELSE ScmError("operation * is not defined between objects"))
    ELSE IF SCM_RATNUMP(arg0)
    THEN (IF SCM_INTP(arg1)
          THEN (IF SCM_EXACT_ZERO_P(arg1) THEN arg1
                ELSE IF SCM_EXACT_ONE_P(arg1) THEN arg0
                ELSE Scm_RatnumMul(arg0, arg1))
          ELSE IF SCM_BIGNUMP(arg1) \/ SCM_RATNUMP(arg1) THEN Scm_RatnumMul(arg0, arg1)
          ELSE IF SCM_FLONUMP(arg1)
          THEN (IF DEq(arg1.d, DZero(0)) THEN arg1
                ELSE Scm_MakeFlonum(DMul(Scm_GetDouble(arg0), arg1.d)))
          ELSE IF SCM_COMPNUMP(arg1)
          THEN Scm_MakeComplex(DMul(Scm_GetDouble(arg0), arg1.real),
                               DMul(Scm_GetDouble(arg0), arg1.imag))
          ELSE ScmError("operation * is not defined between objects"))
    ELSE IF SCM_FLONUMP(arg0)
    THEN (IF SCM_INTP(arg1)
          THEN (IF SCM_EXACT_ZERO_P(arg1) THEN arg1
                ELSE IF SCM_EXACT_ONE_P(arg1) THEN arg0
                ELSE Scm_MakeFlonum(DMul(arg0.d, DFromInt(arg1.v))))
          ELSE IF SCM_BIGNUMP(arg1) \/ SCM_RATNUMP(arg1)
          THEN Scm_MakeFlonum(DMul(arg0.d, Scm_GetDouble(arg1)))
          ELSE IF SCM_FLONUMP(arg1)
          THEN (IF DEq(arg1.d, DFromInt(1)) THEN arg0
                ELSE Scm_MakeFlonum(DMul(arg0.d, arg1.d)))
          ELSE IF SCM_COMPNUMP(arg1)
          THEN Scm_MakeComplex(DMul(arg0.d, arg1.real), DMul(arg0.d, arg1.imag))
          ELSE ScmError("operation * is not defined between objects"))
    ELSE IF SCM_COMPNUMP(arg0)
    THEN (IF SCM_INTP(arg1)
          THEN (IF SCM_EXACT_ZERO_P(arg1) THEN arg1
                ELSE IF SCM_EXACT_ONE_P(arg1) THEN arg0
                ELSE Scm_MakeComplex(DMul(arg0.real, DFromInt(arg1.v)),
                                     DMul(arg0.imag, DFromInt(arg1.v))))
          ELSE IF SCM_BIGNUMP(arg1) \/ SCM_RATNUMP(arg1)
          THEN Scm_MakeComplex(DMul(arg0.real, Scm_GetDouble(arg1)),
                               DMul(arg0.imag, Scm_GetDouble(arg1)))
          ELSE IF SCM_FLONUMP(arg1)
          THEN (IF DEq(arg1.d, DFromInt(1)) THEN arg0
                ELSE Scm_MakeComplex(DMul(arg0.real, arg1.d), DMul(arg0.imag, arg1.d)))
          ELSE IF SCM_COMPNUMP(arg1)
          THEN (LET r0 == arg0.real
                    i0 == arg0.imag
                    r1 == arg1.real
                    i1 == arg1.imag
                IN  Scm_MakeComplex(DSub(DMul(r0, r1), DMul(i0, i1)),
                                    DAdd(DMul(r0, i1), DMul(r1, i0))))
          ELSE ScmError("operation * is not defined between objects"))
    ELSE ScmError("operation * is not defined between objects")

Scm_Mul(arg0, arg1) == ScmCall("Scm_Mul", <<arg0, arg1>>)

(***************************************************************************)
(* Division.  The labels of scm_div are operators over the values arg0,    *)
(* arg1 hold when control reaches them.                                    *)
(***************************************************************************)
div_by_zero == ScmError("attempt to calculate a division by zero")

simple_return(r, inex) == IF inex THEN Scm_Inexact(r) ELSE r

inexact_return(arg0, arg1) ==
    LET numer == Scm_GetDouble(arg0)
        denom == Scm_GetDouble(arg1)
    IN  IF SCM_IS_INF(numer) \/ SCM_IS_INF(denom)
        THEN (LET r == Scm_MakeRational(arg0, arg1)
              IN  IF IsError(r) THEN r ELSE Scm_MakeFlonum(Scm_GetDouble(r)))
        ELSE Scm_MakeFlonum(DDiv(numer, denom))

compat_return(arg0, arg1) ==
    LET qr == Scm_Quotient(arg0, arg1)
    IN  IF IsError(qr) THEN qr
        ELSE IF SCM_EXACT_ZERO_P(qr.r) THEN qr.q
        ELSE Goto("inexact_return", <<arg0, arg1>>)

ratnum_return(arg0, arg1, inex, compat) ==
    IF compat THEN Goto("compat_return", <<arg0, arg1>>)
    ELSE IF inex THEN Goto("inexact_return", <<arg0, arg1>>)
    ELSE Scm_MakeRational(arg0, arg1)

\* anormal with the divisor's sign bit ignored
anormal_positive_zero(arg0, arg1) ==
    LET s0 == Scm_Sign(arg0)
    IN  IF s0 = 0 THEN SCM_NAN
        ELSE IF s0 < 0 THEN SCM_NEGATIVE_INFINITY
        ELSE SCM_POSITIVE_INFINITY

anormal(arg0, arg1) ==
    LET s0 == Scm_Sign(arg0)
        s1 == IF SCM_FLONUMP(arg1) THEN Scm_FlonumSign(arg1.d) ELSE 1
    IN  IF s0 = 0 THEN SCM_NAN
        ELSE IF s0 * s1 < 0 THEN SCM_NEGATIVE_INFINITY
        ELSE SCM_POSITIVE_INFINITY

anormal_part(x0, s1) ==
    IF SCM_IS_NAN(x0) THEN DNaN
    ELSE IF DGt(DMul(x0, DFromInt(s1)), DZero(0)) THEN DInf(0)
    ELSE IF DLt(DMul(x0, DFromInt(s1)), DZero(0)) THEN DInf(1)
    ELSE DNaN

anormal_comp(arg0, arg1) ==
    LET s1 == IF SCM_FLONUMP(arg1) THEN Scm_FlonumSign(arg1.d) ELSE 1
    IN  Scm_MakeComplex(anormal_part(arg0.real, s1), anormal_part(arg0.imag, s1))

do_complex(arg0, arg1) ==
    LET r1 == arg1.real
        i1 == arg1.imag
        d  == DAdd(DMul(r1, r1), DMul(i1, i1))
    IN  Scm_MakeComplex(DDiv(DMul(r1, Scm_GetDouble(arg0)), d),
                        DDiv(DMul(DNeg(i1), Scm_GetDouble(arg0)), d))

scm_div(arg0, arg1, inex, compat) ==
    IF SCM_INTP(arg0)
    THEN (IF SCM_INTP(arg1)
          THEN (IF SCM_EXACT_ZERO_P(arg1)
                THEN (IF inex THEN Goto("anormal", <<arg0, arg1>>) ELSE div_by_zero)
                ELSE IF SCM_EXACT_ZERO_P(arg0) THEN Goto("simple_return", <<arg0, inex>>)
                ELSE IF SCM_EXACT_ONE_P(arg1) THEN Goto("simple_return", <<arg0, inex>>)
                ELSE IF compat
                THEN (IF CRem(arg0.v, arg1.v) = 0
                      THEN Scm_MakeInteger(CDiv(arg0.v, arg1.v))
                      ELSE Scm_MakeFlonum(DDiv(DFromInt(arg0.v), DFromInt(arg1.v))))
                ELSE IF inex
                THEN Scm_MakeFlonum(DDiv(Scm_GetDouble(arg0), Scm_GetDouble(arg1)))
                ELSE Scm_MakeRational(arg0, arg1))
          ELSE IF SCM_BIGNUMP(arg1)
          THEN (IF SCM_EXACT_ZERO_P(arg0) THEN Goto("simple_return", <<arg0, inex>>)
                ELSE Goto("ratnum_return", <<arg0, arg1, inex, compat>>))
          ELSE IF SCM_RATNUMP(arg1)
          THEN Goto("ratnum_return", <<Scm_Mul(arg0, arg1.denom), arg1.numer, inex, compat>>)
          ELSE IF SCM_FLONUMP(arg1)
          THEN (IF DEq(arg1.d, DZero(0)) THEN Goto("anormal", <<arg0, arg1>>)
                ELSE Scm_MakeFlonum(DDiv(DFromInt(arg0.v), arg1.d)))
          ELSE IF SCM_COMPNUMP(arg1) THEN Goto("do_complex", <<arg0, arg1>>)
          ELSE ScmError("operation / is not defined between objects"))
    ELSE IF SCM_BIGNUMP(arg0)
    THEN (IF SCM_INTP(arg1)
          THEN (IF SCM_EXACT_ZERO_P(arg1)
                THEN (IF inex THEN Goto("anormal", <<arg0, arg1>>) ELSE div_by_zero)
                ELSE IF SCM_EXACT_ONE_P(arg1) THEN Goto("simple_return", <<arg0, inex>>)
                ELSE Goto("ratnum_return", <<arg0, arg1, inex, compat>>))
          ELSE IF SCM_BIGNUMP(arg1) THEN Goto("ratnum_return", <<arg0, arg1, inex, compat>>)
          ELSE IF SCM_RATNUMP(arg1)
          THEN Goto("ratnum_return", <<Scm_Mul(arg0, arg1.denom), arg1.numer, inex, compat>>)
          ELSE IF SCM_FLONUMP(arg1)
          THEN (IF DEq(arg1.d, DZero(0)) THEN Goto("anormal", <<arg0, arg1>>)
                ELSE Scm_MakeFlonum(DDiv(Scm_GetDouble(arg0), arg1.d)))
          ELSE IF SCM_COMPNUMP(arg1) THEN Goto("do_complex", <<arg0, arg1>>)
          ELSE ScmError("operation / is not defined between objects"))
    ELSE IF SCM_RATNUMP(arg0)
    THEN (IF SCM_INTP(arg1)
          THEN (IF SCM_EXACT_ZERO_P(arg1)
                THEN (IF inex THEN Goto("anormal", <<arg0, arg1>>) ELSE div_by_zero)
                ELSE IF SCM_EXACT_ONE_P(arg1) THEN Goto("simple_return", <<arg0, inex>>)
                ELSE Goto("ratnum_return", <<arg0.numer, Scm_Mul(arg0.denom, arg1), inex, compat>>))
          ELSE IF SCM_BIGNUMP(arg1)
          THEN Goto("ratnum_return", <<arg0.numer, Scm_Mul(arg0.denom, arg1), inex, compat>>)
          ELSE IF SCM_RATNUMP(arg1)
          THEN (IF ~compat /\ ~inex THEN Scm_RatnumDiv(arg0, arg1)
                ELSE Goto("ratnum_return", <<Scm_Mul(arg0.numer, arg1.denom),
                                   Scm_Mul(arg0.denom, arg1.numer), inex, compat>>))
          ELSE IF SCM_FLONUMP(arg1)
          THEN (IF DEq(arg1.d, DZero(0)) THEN Goto("anormal", <<arg0, arg1>>)
                ELSE Scm_MakeFlonum(DDiv(Scm_GetDouble(arg0), arg1.d)))
          ELSE IF SCM_COMPNUMP(arg1) THEN Goto("do_complex", <<arg0, arg1>>)
          ELSE ScmError("operation / is not defined between objects"))
    ELSE IF SCM_FLONUMP(arg0)
    THEN (IF SCM_INTP(arg1)
          THEN (IF SCM_IS_NAN(arg0.d) THEN SCM_NAN
                ELSE IF SCM_EXACT_ZERO_P(arg1) THEN Goto("anormal", <<arg0, arg1>>)
                ELSE IF SCM_EXACT_ONE_P(arg1) THEN arg0
                ELSE Scm_MakeFlonum(DDiv(arg0.d, DFromInt(arg1.v))))
          ELSE IF SCM_BIGNUMP(arg1) \/ SCM_RATNUMP(arg1)
          THEN Scm_MakeFlonum(DDiv(arg0.d, Scm_GetDouble(arg1)))
          ELSE IF SCM_FLONUMP(arg1)
          THEN (IF SCM_IS_NAN(arg0.d) THEN SCM_NAN
                ELSE IF DEq(arg1.d, DZero(0)) THEN Goto("anormal", <<arg0, arg1>>)
                ELSE Scm_MakeFlonum(DDiv(arg0.d, arg1.d)))
          ELSE IF SCM_COMPNUMP(arg1) THEN Goto("do_complex", <<arg0, arg1>>)
          ELSE ScmError("operation / is not defined between objects"))
    ELSE IF SCM_COMPNUMP(arg0)
    THEN (IF SCM_INTP(arg1)
          THEN (IF SCM_EXACT_ZERO_P(arg1) THEN Goto("anormal_comp", <<arg0, arg1>>)
                ELSE IF SCM_EXACT_ONE_P(arg1) THEN arg0
                ELSE Scm_MakeComplex(DDiv(arg0.real, DFromInt(arg1.v)),
                                     DDiv(arg0.imag, DFromInt(arg1.v))))
          ELSE IF SCM_BIGNUMP(arg1) \/ SCM_RATNUMP(arg1)
          THEN (LET z == Scm_GetDouble(arg1)
                IN  Scm_MakeComplex(DDiv(arg0.real, z), DDiv(arg0.imag, z)))
          ELSE IF SCM_FLONUMP(arg1)
          THEN (IF DEq(arg1.d, DZero(0)) THEN Goto("anormal_comp", <<arg0, arg1>>)
                ELSE Scm_MakeComplex(DDiv(arg0.real, arg1.d), DDiv(arg0.imag, arg1.d)))
          ELSE IF SCM_COMPNUMP(arg1)
          THEN (LET r0 == arg0.real
                    i0 == arg0.imag
                    r1 == arg1.real
                    i1 == arg1.imag
                    d  == DAdd(DMul(r1, r1), DMul(i1, i1))
                IN  Scm_MakeComplex(DDiv(DAdd(DMul(r0, r1), DMul(i0, i1)), d),
                                    DDiv(DSub(DMul(i0, r1), DMul(r0, i1)), d)))
          ELSE ScmError("operation / is not defined between objects"))
    ELSE ScmError("operation / is not defined between objects")

\* scm_div with every exact zero divisor sent to anormal, as the inexact
\* flavour does
scm_div_zero_anormal(x, y) ==
    IF SCM_EXACT_ZERO_P(y) /\ SCM_REALP(x) THEN Goto("anormal", <<x, y>>)
    ELSE ScmCall("scm_div", <<x, y, FALSE, FALSE>>)

\* scm_div with simple_return leaving out the Scm_Inexact of the inexact
\* flavour
scm_div_simple_exact(x, y) ==
    IF SCM_EXACTP(x) /\ SCM_EXACT_ONE_P(y) THEN x
    ELSE ScmCall("scm_div", <<x, y, TRUE, FALSE>>)

Scm_Div(x, y) == ScmCall("scm_div", <<x, y, FALSE, FALSE>>)

Scm_DivInexact(x, y) == ScmCall("scm_div", <<x, y, TRUE, FALSE>>)

Scm_DivCompat(x, y) == ScmCall("scm_div", <<x, y, FALSE, TRUE>>)

(***************************************************************************)
(* Gcd.                                                                    *)
(***************************************************************************)
RECURSIVE gcd_fixfix(_, _)
gcd_fixfix(x, y) == IF y > 0 THEN gcd_fixfix(y, x % y) ELSE x

RECURSIVE gcd_floflo_loop(_, _)
gcd_floflo_loop(x, y) == IF DGt(y, DZero(0)) THEN gcd_floflo_loop(y, fmod(x, y)) ELSE x

\* if (d < 0) d = -d
DAbsNeg(d) == IF DLt(d, DZero(0)) THEN DNeg(d) ELSE d

gcd_floflo_swap(x, y) == IF DLt(x, y) THEN gcd_floflo_loop(y, x) ELSE gcd_floflo_loop(x, y)

gcd_floflo(x, y) == gcd_floflo_swap(DAbsNeg(x), DAbsNeg(y))

gcd_bigfix(x, y) == gcd_fixfix(y, IAbs(Scm_BignumDivSI(x, y).r))

\* the while loop that ends Scm_Gcd
RECURSIVE gcd_bigbig_loop(_, _)
gcd_bigbig_loop(x, y) ==
    IF IsError(y) THEN y
    ELSE IF SCM_EXACT_ZERO_P(y) THEN x
    ELSE gcd_bigbig_loop(y, Scm_Modulo(x, y, TRUE))

\* (ix < 0)? -ix : ix stored in a u_long; -LONG_MIN wraps to 2^(WordBits-1)
ULongAbs(ix) == IF ix < 0 THEN (-ix) % Pow2(WordBits) ELSE ix

\* Scm_Gcd on two exact nonzero integers: cx and cy are what
\* Scm_GetIntegerClamp(.., SCM_CLAMP_NONE, &ox / &oy) made of x and y
gcd_exact(x, y, cx, cy) ==
    IF ~cx.oor /\ ~cy.oor
    THEN Scm_MakeIntegerU(IF ULongAbs(cx.v) >= ULongAbs(cy.v)
                          THEN gcd_fixfix(ULongAbs(cx.v), ULongAbs(cy.v))
                          ELSE gcd_fixfix(ULongAbs(cy.v), ULongAbs(cx.v)))
    ELSE IF ~cy.oor /\ cy.v # LONG_MIN THEN Scm_MakeIntegerU(gcd_bigfix(x, ULongAbs(cy.v)))
    ELSE IF ~cx.oor /\ cx.v # LONG_MIN THEN Scm_MakeIntegerU(gcd_bigfix(y, ULongAbs(cx.v)))
    ELSE IF Scm_NumCmp(Scm_Abs(x), Scm_Abs(y)) = Cmp(-1)
    THEN gcd_bigbig_loop(Scm_Abs(y), Scm_Abs(x))
    ELSE gcd_bigbig_loop(Scm_Abs(x), Scm_Abs(y))

scm_gcd(x, y) ==
    IF ~Scm_IntegerP(x) THEN ScmError("integer required")
    ELSE IF ~Scm_IntegerP(y) THEN ScmError("integer required")
    ELSE IF SCM_FLONUMP(x) \/ SCM_FLONUMP(y)
    THEN Scm_MakeFlonum(gcd_floflo(Scm_GetDouble(x), Scm_GetDouble(y)))
    ELSE IF SCM_EXACT_ZERO_P(x) THEN y
    ELSE IF SCM_EXACT_ZERO_P(y) THEN x
    ELSE gcd_exact(x, y, Scm_GetIntegerClamp(x, "NONE", TRUE),
                   Scm_GetIntegerClamp(y, "NONE", TRUE))

Scm_Gcd(x, y) == ScmCall("Scm_Gcd", <<x, y>>)

(***************************************************************************)
(* Conversion of a flonum to an exact number.                              *)
(***************************************************************************)
DLe(a, b) == DLt(a, b) \/ DEq(a, b)

\* Scm_MakeBignumFromDouble of bignum.c: the integer a double holds
Scm_MakeBignumFromDouble(d) ==
    Scm_NormalizeBignum(Scm_MakeBignumFromSI(CDiv(DUnits(d), DIntUnits)))

Scm_FlonumIntegerToExact(d) ==
    IF DLe(DFromInt(LONG_MIN), d) /\ DLe(d, DFromInt(LONG_MAX))
         /\ SCM_SMALL_INT_MIN <= CastLong(d) /\ CastLong(d) <= SCM_SMALL_INT_MAX
    THEN SCM_MAKE_INT(CastLong(d))
    ELSE Scm_MakeBignumFromDouble(d)

\* the simplest rational (least denominator, then least numerator) in the
\* closed interval [ln/ld, hn/hd] of positive rationals, as <<numer, denom>>
RECURSIVE SimplestRat(_, _, _, _)
SimplestRat(ln, ld, hn, hd) ==
    LET fl == ln \div ld
    IN  IF fl * ld = ln THEN <<fl, 1>>
        ELSE IF fl < hn \div hd THEN <<fl + 1, 1>>
        ELSE LET r == SimplestRat(hd, hn - fl * hd, ld, ln - fl * ld)
             IN  <<fl * r[1] + r[2], r[1]>>

\* real->rational of the Scheme library on a flonum with a fractional part:
\* the simplest rational that rounds to the flonum
real_to_rational(d) ==
    LET u == 2 * IAbs(DUnits(d))
        h == Pow2(d.e - DblEMin)
        r == SimplestRat(u - h, 2 * DIntUnits, u + h, 2 * DIntUnits)
    IN  Scm_MakeRational(Scm_MakeInteger(IF d.s = 1 THEN -r[1] ELSE r[1]),
                         Scm_MakeInteger(r[2]))

exact(obj) ==
    IF SCM_FLONUMP(obj)
    THEN (IF SCM_IS_NAN(obj.d) \/ SCM_IS_INF(obj.d)
          THEN ScmError("Exact infinity/nan is not supported")
          ELSE IF DUnits(obj.d) % DIntUnits = 0
          THEN Scm_FlonumIntegerToExact(obj.d)
          ELSE real_to_rational(obj.d))
    ELSE IF SCM_COMPNUMP(obj) THEN ScmError("exact complex is not supported")
    ELSE IF ~SCM_EXACTP(obj) THEN ScmError("number required")
    ELSE obj

Scm_Exact(obj) == ScmCall("Scm_Exact", <<obj>>)

(***************************************************************************)
(* Comparison.  Scm_NumCmp returns -1, 0 or 1, here Cmp(-1), Cmp(0) or     *)
(* Cmp(1), or signals an error.                                            *)
(***************************************************************************)
\* the machine word of a fixnum: its value above the two tag bits 01
SCM_WORD(obj) == 4 * obj.v + 1

\* the value a word holds above its two tag bits
SCM_INT_VALUE(w) == w \div 4

DSign3(r) == IF DLt(r, DZero(0)) THEN -1 ELSE IF DGt(r, DZero(0)) THEN 1 ELSE 0

\* the literal 2.0e-52, which is 0.9007... * 2^-52, at the format's precision
DblErrFactor == DRound(0, 9007, 10000, -(DblPrec - 1))

\* the negation of a comparison result, an error passing through
NegCmp(c) == IF IsError(c) THEN c ELSE Cmp(-c.v)

numcmp(arg0, arg1) ==
    IF SCM_INTP(arg0)
    THEN (IF SCM_INTP(arg1) THEN Cmp(ISign(arg0.v - arg1.v))
          ELSE IF SCM_FLONUMP(arg1)
          THEN (LET r == DSub(DFromInt(arg0.v), arg1.d)
                IN  IF DSign3(r) # 0 THEN Cmp(DSign3(r))
                    ELSE IF ~double_precision(arg0).dp
                    THEN (LET e == Scm_Exact(arg1)
                          IN  IF IsError(e) THEN e ELSE Scm_NumCmp(arg0, e))
                    ELSE Cmp(0))
          ELSE IF SCM_BIGNUMP(arg1)
          THEN Cmp(Scm_BignumCmp(Scm_MakeBignumFromSI(arg0.v), arg1))
          ELSE IF SCM_RATNUMP(arg1)
          THEN (IF SCM_INT_VALUE(0) = SCM_WORD(arg0) THEN Cmp(-Scm_Sign(arg1))
                ELSE LET y   == Scm_GetDouble(arg1)
                         r   == DSub(DFromInt(arg0.v), y)
                         err == DMul(y, DblErrFactor)
                     IN  IF DLt(r, DNeg(err)) THEN Cmp(-1)
                         ELSE IF DGt(r, err) THEN Cmp(1)
                         ELSE Scm_NumCmp(Scm_Mul(arg0, arg1.denom), arg1.numer))
          ELSE ScmError("real number required"))
    ELSE IF SCM_FLONUMP(arg0)
    THEN (IF SCM_INTP(arg1)
          THEN (LET r == DSub(arg0.d, DFromInt(arg1.v))
                IN  IF DSign3(r) # 0 THEN Cmp(DSign3(r))
                    ELSE IF ~double_precision(arg1).dp
                    THEN (LET e == Scm_Exact(arg0)
                          IN  IF IsError(e) THEN e ELSE Scm_NumCmp(e, arg1))
                    ELSE Cmp(0))
          ELSE IF SCM_FLONUMP(arg1) THEN Cmp(DSign3(DSub(arg0.d, arg1.d)))
          ELSE IF SCM_BIGNUMP(arg1) \/ SCM_RATNUMP(arg1)
          THEN (IF SCM_IS_INF(arg0.d) THEN Cmp(Scm_Sign(arg0))
                ELSE LET r == DSub(arg0.d, Scm_GetDouble(arg1))
                     IN  IF DSign3(r) # 0 THEN Cmp(DSign3(r))
                         ELSE LET e == Scm_Exact(arg0)
                              IN  IF IsError(e) THEN e ELSE Scm_NumCmp(e, arg1))
          ELSE ScmError("real number required"))
    ELSE IF SCM_BIGNUMP(arg0)
    THEN (IF SCM_INTP(arg1) THEN Cmp(Scm_BignumCmp(arg0, Scm_MakeBignumFromSI(arg1.v)))
          ELSE IF SCM_FLONUMP(arg1) THEN NegCmp(Scm_NumCmp(arg1, arg0))
          ELSE IF SCM_BIGNUMP(arg1) THEN Cmp(Scm_BignumCmp(arg0, arg1))
          ELSE IF SCM_RATNUMP(arg1)
          THEN Scm_NumCmp(Scm_Mul(arg0, arg1.denom), arg1.numer)
          ELSE ScmError("real number required"))
    ELSE IF SCM_RATNUMP(arg0)
    THEN (IF SCM_INTP(arg1) \/ SCM_BIGNUMP(arg1) \/ SCM_FLONUMP(arg1)
          THEN NegCmp(Scm_NumCmp(arg1, arg0))
          ELSE IF SCM_RATNUMP(arg1)
          THEN (LET n0 == arg0.numer
                    d0 == arg0.denom
                    n1 == arg1.numer
                    d1 == arg1.denom
                    s0 == Scm_Sign(n0)
                    s1 == Scm_Sign(n1)
                    d  == Scm_NumCmp(d0, d1).v
                    n  == Scm_NumCmp(n0, n1).v * s0
                IN  IF s0 < s1 THEN Cmp(-1)
                    ELSE IF s0 > s1 THEN Cmp(1)
                    ELSE IF d = 0 THEN Scm_NumCmp(n0, n1)
                    ELSE IF ((s0 > 0 /\ s1 > 0) \/ (s0 < 0 /\ s1 < 0)) /\ d > 0 /\ n <= 0
                    THEN Cmp(-s0)
                    ELSE IF ((s0 > 0 /\ s1 > 0) \/ (s0 < 0 /\ s1 < 0)) /\ d < 0 /\ n >= 0
                    THEN Cmp(s0)
                    ELSE Scm_NumCmp(Scm_Mul(n0, d1), Scm_Mul(n1, d0)))
          ELSE ScmError("real number required"))
    ELSE ScmError("real number required")

\* a comparison that trusts the double-precision difference of a fixnum and
\* a flonum
numcmp_inexact(arg0, arg1) ==
    IF SCM_INTP(arg0) /\ SCM_FLONUMP(arg1)
    THEN Cmp(DSign3(DSub(DFromInt(arg0.v), arg1.d)))
    ELSE ScmCall("Scm_NumCmp", <<arg0, arg1>>)

Scm_NumCmp(arg0, arg1) == ScmCall("Scm_NumCmp", <<arg0, arg1>>)

(***************************************************************************)
(* The call of a function of the library by its name.                      *)
(***************************************************************************)
(* Number I/O.  A string is a sequence of characters, each a string of     *)
(* length one.                                                             *)
(***************************************************************************)
SCM_FALSE == [k |-> "False"]

SCM_FALSEP(obj) == obj.k = "False"

SCM_RADIX_MIN == 2

SCM_RADIX_MAX == 36

\* a character is a string of length one; NUL ends a C string
NUL == ""

\* the character at the pointer i into the NUL-terminated buffer buf
At(buf, i) == IF 0 <= i /\ i < Len(buf) THEN buf[i + 1] ELSE NUL

\* the digits of read_uint's tab[] and print_number, by value
LowerDigits ==
    <<"0", "1", "2", "3", "4", "5", "6", "7", "8", "9", "a", "b", "c", "d", "e", "f", "g",
      "h", "i", "j", "k", "l", "m", "n", "o", "p", "q", "r", "s", "t", "u", "v", "w", "x",
      "y", "z">>

UpperDigits ==
    <<"0", "1", "2", "3", "4", "5", "6", "7", "8", "9", "A", "B", "C", "D", "E", "F", "G",
      "H", "I", "J", "K", "L", "M", "N", "O", "P", "Q", "R", "S", "T", "U", "V", "W", "X",
      "Y", "Z">>

\* (c<10)?(c+'0'):(use_upper?(c-10+'A'):(c-10+'a'))
DigitChar(c, use_upper) == IF use_upper THEN UpperDigits[c + 1] ELSE LowerDigits[c + 1]

tolower(c) ==
    IF \E i \in 11 .. 36 : UpperDigits[i] = c
    THEN LowerDigits[CHOOSE i \in 11 .. 36 : UpperDigits[i] = c]
    ELSE c

isdigit(c) == \E i \in 1 .. 10 : LowerDigits[i] = c

\* the value of the decimal digit c
DigitValue(c) == (CHOOSE i \in 1 .. 10 : LowerDigits[i] = c) - 1

\* sprintf "%d" of a nonnegative int
RECURSIVE sprintf_d(_)
sprintf_d(n) ==
    IF n < 10 THEN <<LowerDigits[n + 1]>>
    ELSE sprintf_d(n \div 10) \o <<LowerDigits[(n % 10) + 1]>>

RECURSIVE Pow10(_)
Pow10(n) == IF n = 0 THEN 1 ELSE 10 * Pow10(n - 1)

\* the table iexpt10_n, filled by iexpt10_init
iexpt10_n(i) == Scm_MakeInteger(Pow10(i))

IEXPT10_TABLESIZ == 341

RECURSIVE iexpt10(_)
iexpt10(e) ==
    IF e < IEXPT10_TABLESIZ THEN iexpt10_n(e)
    ELSE Scm_Mul(iexpt10_n(IEXPT10_TABLESIZ - 1), iexpt10(e - IEXPT10_TABLESIZ + 1))

\* u_long k; for (k=1; n>0; n--) k *= r;
RECURSIVE ipow(_, _)
ipow(r, n) == IF n > 0 THEN (r * ipow(r, n - 1)) % Pow2(WordBits) ELSE 1

SCM_TRUE == [k |-> "True"]

SCM_TRUEP(obj) == obj.k = "True"

\* the exponent field of the infinities and the NaNs (0x7ff)
DblExpSpecial == DblEMax - DblEMin + 2

\* the hidden bit of a normal mantissa (1L<<52)
DblHidden == Pow2(DblPrec - 1)

\* the bias of the exponent field plus the mantissa width (0x3ff + 52)
DblExpBias == 1 - DblEMin

\* the fields of the IEEE representation of d (SIZEOF_LONG >= 8)
decode_double(d) ==
    IF SCM_IS_NAN(d) THEN [mant0 |-> Pow2(DblPrec - 2), exp |-> DblExpSpecial, sign |-> d.s]
    ELSE IF SCM_IS_INF(d) THEN [mant0 |-> 0, exp |-> DblExpSpecial, sign |-> d.s]
    ELSE IF d.m >= DblHidden
    THEN [mant0 |-> d.m - DblHidden, exp |-> d.e - DblEMin + 1, sign |-> d.s]
    ELSE [mant0 |-> d.m, exp |-> 0, sign |-> d.s]

\* Scm_DecodeFlonum after decode_double
decode_fields(dd) ==
    LET sign == IF dd.sign # 0 THEN -1 ELSE 1
    IN  IF dd.exp = DblExpSpecial
        THEN [f |-> IF dd.mant0 = 0 THEN SCM_TRUE ELSE SCM_FALSE, exp |-> 0, sign |-> sign]
        ELSE [f |-> Scm_MakeInteger(IF dd.exp > 0 THEN dd.mant0 + DblHidden ELSE dd.mant0),
              exp |-> IF dd.exp # 0 THEN dd.exp - DblExpBias ELSE DblEMin,
              sign |-> sign]

\* [f, exp, sign] of a double: d = sign * f * 2^exp when d is finite
Scm_DecodeFlonum(d) == decode_fields(decode_double(d))

Scm_OddP(obj) == obj.v % 2 = 1

SCM_2_52 == ash(SCM_MAKE_INT(1), DblPrec - 1)

SCM_2_53 == ash(SCM_MAKE_INT(1), DblPrec)

\* Scm__EncodeDouble (SIZEOF_LONG >= 8): the fields are stored in bit-fields
\* of the widths of the format
Scm__EncodeDouble(mant1, exp, sbit) ==
    LET mant == mant1 % DblHidden
        e == exp % (DblExpSpecial + 1)
    IN  IF e = DblExpSpecial THEN (IF mant = 0 THEN DInf(sbit) ELSE DNaN)
        ELSE IF e = 0 THEN DFin(sbit, mant, DblEMin)
        ELSE DFin(sbit, mant + DblHidden, e - DblExpBias)

\* uint64_t is u_long where SIZEOF_LONG >= 8
Scm_GetIntegerU64Clamp(obj, clamp, oorp) ==
    IF SCM_INTP(obj)
    THEN (IF obj.v < 0
          THEN (IF ClampLo(clamp) THEN CInt(0, FALSE) ELSE range_error(clamp, oorp))
          ELSE CInt(obj.v, FALSE))
    ELSE IF SCM_BIGNUMP(obj) THEN Scm_BignumToUI(obj, clamp, oorp)
    ELSE IF SCM_FLONUMP(obj) THEN uclamp_flonum(obj.d, clamp, oorp)
    ELSE IF SCM_RATNUMP(obj) THEN uclamp_flonum(Scm_GetDouble(obj), clamp, oorp)
    ELSE range_error(clamp, oorp)

Scm_NumLT(x, y) == Scm_NumCmp(x, y).v < 0

\* Scm_EncodeFlonum from the range checks on, with the test of the lower
\* bound of a normal mantissa left out
encode_scaled_unchecked(mant, exp, sbit, mant64) ==
    IF IsError(mant64) THEN mant64
    ELSE IF ~Scm_NumLT(mant, SCM_2_53) THEN ScmError("flonum mantissa out of range")
    ELSE IF exp = DblEMin /\ Scm_NumLT(mant, SCM_2_52)
    THEN Scm_MakeFlonum(Scm__EncodeDouble(mant64.v, exp - 1 + DblExpBias, sbit))
    ELSE Scm_MakeFlonum(Scm__EncodeDouble(mant64.v, exp + DblExpBias, sbit))

\* Scm_EncodeFlonum from the range checks on (lines 624-641)
encode_scaled(mant, exp, sbit, mant64) ==
    IF IsError(mant64) THEN mant64
    ELSE IF ~Scm_NumLT(mant, SCM_2_53) THEN ScmError("flonum mantissa out of range")
    ELSE IF exp = DblEMin /\ Scm_NumLT(mant, SCM_2_52)
    THEN Scm_MakeFlonum(Scm__EncodeDouble(mant64.v, exp - 1 + DblExpBias, sbit))
    ELSE IF Scm_NumLT(mant, SCM_2_52) THEN ScmError("flonum mantissa out of range")
    ELSE Scm_MakeFlonum(Scm__EncodeDouble(mant64.v, exp + DblExpBias, sbit))

\* the scaled mantissa on its way to the range checks
encode_shifted(mant, exp, sbit) ==
    IF IsError(mant) THEN mant
    ELSE encode_scaled(mant, exp, sbit, Scm_GetIntegerU64Clamp(mant, "ERROR", FALSE))

\* the double is returned boxed, an error in its place
Scm_EncodeFlonum(mant, exp, sign) ==
    IF SCM_FALSEP(mant) THEN Scm_MakeFlonum(DNaN)
    ELSE IF SCM_TRUEP(mant) THEN Scm_MakeFlonum(IF sign < 0 THEN DInf(1) ELSE DInf(0))
    ELSE IF exp < DblEMin
    THEN encode_shifted(Scm_Ash(mant, -(DblEMin - exp)), DblEMin, IF sign < 0 THEN 1 ELSE 0)
    ELSE IF exp > DblEMax THEN ScmError("flonum exponent out of range")
    ELSE encode_shifted(mant, exp, IF sign < 0 THEN 1 ELSE 0)

(***************************************************************************)
(* System-specific integral types: ssize_t, ptrdiff_t and off_t have the   *)
(* width of a long.                                                        *)
(***************************************************************************)
SCM_2_63 == ash(SCM_MAKE_INT(1), WordBits - 1)

\* Scm_Negate of a Bignum
SCM_MINUS_2_63 == Scm_BignumNegate(SCM_2_63)

SSIZE_MAX == LONG_MAX

PTRDIFF_MAX == LONG_MAX

SCM_SSIZE_T_MAX == Scm_MakeInteger(SSIZE_MAX)

SCM_SSIZE_T_MIN == Scm_MakeInteger(-(SSIZE_MAX - 1))

SCM_PTRDIFF_T_MAX == Scm_MakeInteger(PTRDIFF_MAX)

SCM_PTRDIFF_T_MIN == Scm_MakeInteger(-(PTRDIFF_MAX - 1))

Scm_IntegerFitsSsizeP(i) ==
    IF SCM_INTP(i) THEN TRUE
    ELSE IF SCM_BIGNUMP(i)
    THEN Scm_NumCmp(i, SCM_SSIZE_T_MIN).v >= 0 /\ Scm_NumCmp(i, SCM_SSIZE_T_MAX).v <= 0
    ELSE FALSE

Scm_IntegerToSsize(i) ==
    IF SCM_INTP(i) THEN CInt(i.v, FALSE)
    ELSE IF SCM_BIGNUMP(i) THEN Scm_GetIntegerClamp(i, "ERROR", FALSE)
    ELSE ScmError("bad value as ssize_t")

Scm_IntegerFitsPtrdiffP(i) ==
    IF SCM_INTEGERP(i)
    THEN Scm_NumCmp(i, SCM_PTRDIFF_T_MIN).v >= 0 /\ Scm_NumCmp(i, SCM_PTRDIFF_T_MAX).v <= 0
    ELSE FALSE

Scm_IntegerToPtrdiff(i) ==
    IF SCM_INTEGERP(i) THEN Scm_GetIntegerClamp(i, "ERROR", FALSE)
    ELSE ScmError("bad value as ptrdiff")

\* SIZEOF_OFF_T == 8
Scm_IntegerFitsOffsetP(i) ==
    IF SCM_INTP(i) THEN TRUE
    ELSE IF SCM_BIGNUMP(i)
    THEN Scm_NumCmp(i, SCM_MINUS_2_63).v >= 0 /\ Scm_NumCmp(i, SCM_2_63).v >= 0
    ELSE FALSE

Scm_IntegerToOffset(i) ==
    IF SCM_INTP(i) THEN CInt(i.v, FALSE)
    ELSE IF SCM_BIGNUMP(i) THEN Scm_GetIntegerClamp(i, "ERROR", FALSE)
    ELSE ScmError("bad value as offset")

(***************************************************************************)
(* Extraction of 8-, 16- and 32-bit integers, where a long is wider than   *)
(* 32 bits.  The widths shrink with the word.                              *)
(***************************************************************************)
Int32Bits == WordBits \div 2

Int16Bits == WordBits \div 4

Int8Bits == WordBits \div 8

\* (long)v: the truncated value, or what a cast out of range may leave
CastValues(v) ==
    IF CastFits(v, LONG_MIN, LONG_MAX) THEN {CDiv(DUnits(v), DIntUnits)}
    ELSE IF SCM_IS_NAN(v) THEN {LONG_MIN, 0}
    ELSE {LONG_MIN, LONG_MAX}

\* SMALL_INT_XTRACT from the test of n against the bounds on
small_int_range(n, clamp, oorp, upper, lower) ==
    IF n > upper THEN (IF ClampHi(clamp) THEN CInt(upper, FALSE) ELSE range_error(clamp, oorp))
    ELSE IF n < lower
    THEN (IF ClampLo(clamp) THEN CInt(lower, FALSE) ELSE range_error(clamp, oorp))
    ELSE CInt(n, FALSE)

\* the set of the outcomes of the extractor with the bounds upper and lower
SMALL_INT_XTRACT(obj, clamp, oorp, upper, lower) ==
    IF SCM_INTP(obj) THEN {small_int_range(obj.v, clamp, oorp, upper, lower)}
    ELSE IF SCM_FLONUMP(obj)
    THEN {small_int_range(n, clamp, oorp, upper, lower) : n \in CastValues(obj.d)}
    ELSE IF SCM_RATNUMP(obj)
    THEN {small_int_range(n, clamp, oorp, upper, lower) : n \in CastValues(Scm_GetDouble(obj))}
    ELSE IF SCM_BIGNUMP(obj)
    THEN (IF Scm_Sign(obj) > 0
          THEN {IF ClampHi(clamp) THEN CInt(upper, FALSE) ELSE range_error(clamp, oorp)}
          ELSE {IF ClampLo(clamp) THEN CInt(lower, FALSE) ELSE range_error(clamp, oorp)})
    ELSE {range_error(clamp, oorp)}

Scm_GetInteger8Clamp(obj, clamp, oorp) ==
    SMALL_INT_XTRACT(obj, clamp, oorp, Pow2(Int8Bits - 1) - 1, -Pow2(Int8Bits - 1))

Scm_GetIntegerU8Clamp(obj, clamp, oorp) ==
    SMALL_INT_XTRACT(obj, clamp, oorp, Pow2(Int8Bits) - 1, 0)

Scm_GetInteger16Clamp(obj, clamp, oorp) ==
    SMALL_INT_XTRACT(obj, clamp, oorp, Pow2(Int16Bits - 1) - 1, -Pow2(Int16Bits - 1))

Scm_GetIntegerU16Clamp(obj, clamp, oorp) ==
    SMALL_INT_XTRACT(obj, clamp, oorp, Pow2(Int16Bits) - 1, 0)

\* SIZEOF_LONG >= 8
Scm_GetInteger32Clamp(obj, clamp, oorp) ==
    IF SCM_INTP(obj)
    THEN (IF obj.v < -Pow2(Int32Bits - 1)
          THEN (IF ClampLo(clamp) THEN CInt(-Pow2(Int32Bits - 1), FALSE)
                ELSE range_error(clamp, oorp))
          ELSE IF obj.v > Pow2(Int32Bits - 1) - 1
          THEN (IF ClampHi(clamp) THEN CInt(Pow2(Int32Bits - 1) - 1, FALSE)
                ELSE range_error(clamp, oorp))
          ELSE CInt(obj.v, FALSE))
    ELSE IF SCM_BIGNUMP(obj)
    THEN (IF SCM_BIGNUM_SIGN(obj) < 0
          THEN (IF ClampLo(clamp) THEN CInt(-Pow2(Int32Bits - 1), FALSE)
                ELSE range_error(clamp, oorp))
          ELSE (IF ClampHi(clamp) THEN CInt(Pow2(Int32Bits - 1) - 1, FALSE)
                ELSE range_error(clamp, oorp)))
    ELSE range_error(clamp, oorp)

\* SIZEOF_LONG >= 8
Scm_GetIntegerU32Clamp(obj, clamp, oorp) ==
    IF SCM_INTP(obj)
    THEN (IF obj.v < 0
          THEN (IF ClampLo(clamp) THEN CInt(0, FALSE) ELSE range_error(clamp, oorp))
          ELSE IF obj.v > Pow2(Int32Bits) - 1
          THEN (IF ClampHi(clamp) THEN CInt(Pow2(Int32Bits) - 1, FALSE)
                ELSE range_error(clamp, oorp))
          ELSE CInt(obj.v, FALSE))
    ELSE IF SCM_BIGNUMP(obj)
    THEN (IF SCM_BIGNUM_SIGN(obj) < 0
          THEN (IF ClampLo(clamp) THEN CInt(0, FALSE) ELSE range_error(clamp, oorp))
          ELSE (IF ClampHi(clamp) THEN CInt(Pow2(Int32Bits) - 1, FALSE)
                ELSE range_error(clamp, oorp)))
    ELSE range_error(clamp, oorp)

\* the exponent print_double sets apart (-1023 in the source): the least
\* exponent of a normal double, counted from the leading bit
DblBiasExp == DblEMin + DblPrec - 2

\* whether val <= 10^(k + 1/10), val a positive finite double
BelowPow10(val, k) ==
    IF k >= 0
    THEN (IF val.e >= 0 THEN val.m * Pow2(val.e) * 1000 <= 1259 * Pow10(k)
          ELSE val.m * 1000 <= 1259 * Pow10(k) * Pow2(-val.e))
    ELSE (IF val.e >= 0 THEN val.m * Pow2(val.e) * 1000 * Pow10(-k) <= 1259
          ELSE val.m * 1000 * Pow10(-k) <= 1259 * Pow2(-val.e))

RECURSIVE Log10EstDown(_, _)
Log10EstDown(val, k) == IF BelowPow10(val, k - 1) THEN Log10EstDown(val, k - 1) ELSE k

RECURSIVE Log10EstUp(_, _)
Log10EstUp(val, k) == IF BelowPow10(val, k) THEN k ELSE Log10EstUp(val, k + 1)

\* (int)ceil(log10(val) - 0.1) for a positive finite double
Log10Est(val) == IF BelowPow10(val, 0) THEN Log10EstDown(val, 0) ELSE Log10EstUp(val, 1)

\* bignum.c: the sign of bx + bd - by
Scm_BignumCmp3U(bx, bd, by) == ISign((bx.v + bd.v) - by.v)

\* the sign of x + d - y
numcmp3(x, d, y) ==
    IF SCM_INTP(x) /\ SCM_INTP(d) /\ SCM_INTP(y)
    THEN (IF x.v + d.v < y.v THEN -1 ELSE IF x.v + d.v > y.v THEN 1 ELSE 0)
    ELSE Scm_BignumCmp3U(Scm_MakeBignumFromSI(x.v), Scm_MakeBignumFromSI(d.v),
                         Scm_MakeBignumFromSI(y.v))

\* the copy r of the first end characters of src, from the last one down to
\* the one after start: 9 becomes 0 and the scan goes on, any other digit is
\* incremented and the scan stops; [r, p] with p the place where it stopped
RECURSIVE roundup_carry(_, _, _)
roundup_carry(r, start, p) ==
    IF p <= start THEN [r |-> r, p |-> p]
    ELSE IF r[p] = "." THEN roundup_carry(r, start, p - 1)
    ELSE IF r[p] = "9" THEN roundup_carry([r EXCEPT ![p] = "0"], start, p - 1)
    ELSE [r |-> [r EXCEPT ![p] = LowerDigits[DigitValue(r[p]) + 2]], p |-> p]

\* start counts the characters before the number, end those to keep
notational_roundup(src, start, end) ==
    LET c == roundup_carry(SubSeq(src, 1, end), start, end)
    IN  IF c.p <= start /\ c.r[start + 1] = "0"
        THEN SubSeq(c.r, 1, start) \o <<"1">> \o SubSeq(c.r, start + 1, end)
        ELSE c.r

spill_fixup(ds, numstart) == notational_roundup(ds, numstart, Len(ds))

\* print_double: r, s, m- and the flag mp2 (m+ = 2 m-) for mantissa f and
\* exponent exp
pd_init(f, exp) ==
    IF exp >= 0
    THEN (IF Scm_NumCmp(f, SCM_2_52).v # 0
          THEN [r |-> Scm_Ash(f, exp + 1), s |-> SCM_MAKE_INT(2), mp2 |-> FALSE,
                mm |-> Scm_Ash(SCM_MAKE_INT(1), exp)]
          ELSE [r |-> Scm_Ash(f, exp + 2), s |-> SCM_MAKE_INT(4), mp2 |-> TRUE,
                mm |-> Scm_Ash(SCM_MAKE_INT(1), exp)])
    ELSE (IF exp = DblBiasExp \/ Scm_NumCmp(f, SCM_2_52).v # 0
          THEN [r |-> Scm_Ash(f, 1), s |-> Scm_Ash(SCM_MAKE_INT(1), -exp + 1), mp2 |-> FALSE,
                mm |-> SCM_MAKE_INT(1)]
          ELSE [r |-> Scm_Ash(f, 2), s |-> Scm_Ash(SCM_MAKE_INT(1), -exp + 2), mp2 |-> TRUE,
                mm |-> SCM_MAKE_INT(1)])

\* print_double: "estimate scale"
pd_scale(i, est) ==
    IF est >= 0 THEN [i EXCEPT !.s = Scm_Mul(i.s, iexpt10(est))]
    ELSE [i EXCEPT !.r = Scm_Mul(i.r, iexpt10(-est)), !.mm = Scm_Mul(i.mm, iexpt10(-est))]

\* print_double: "fixup"
pd_fixup(i, round) ==
    IF Scm_NumCmp(i.r, i.s).v >= 0 THEN TRUE
    ELSE IF round THEN numcmp3(i.r, IF i.mp2 THEN Scm_Ash(i.mm, 1) ELSE i.mm, i.s) >= 0
    ELSE numcmp3(i.r, IF i.mp2 THEN Scm_Ash(i.mm, 1) ELSE i.mm, i.s) > 0

\* print_double: the zeros before the first digit when point <= 0
RECURSIVE pd_zeros(_, _, _)
pd_zeros(ds, point, digs) ==
    IF digs < 1
    THEN pd_zeros(ds \o <<"0">> \o (IF digs = point THEN <<".">> ELSE <<>>), point, digs + 1)
    ELSE ds

\* the digit after q, 9 with the spill flag when there is none
pd_next_digit(ds, q, digs) ==
    IF q.v + 1 > 9 THEN [ds |-> ds \o <<"9">>, digs |-> digs, spilled |-> TRUE]
    ELSE [ds |-> ds \o <<LowerDigits[q.v + 2]>>, digs |-> digs, spilled |-> FALSE]

\* print_double: "generate the digits", without a limit of precision
RECURSIVE pd_generate(_, _, _, _, _, _, _, _)
pd_digit(q, r, s, mm, mp, mp2, round, point, digs, ds) ==
    LET tc1 == IF round THEN Scm_NumCmp(r, mm).v <= 0 ELSE Scm_NumCmp(r, mm).v < 0
        tc2 == IF round THEN numcmp3(r, mp, s) >= 0 ELSE numcmp3(r, mp, s) > 0
        tc3 == numcmp3(r, r, s)
    IN  IF ~tc1
        THEN (IF ~tc2
              THEN pd_generate(r, s, mm, mp2, round, point, digs + 1,
                               ds \o <<LowerDigits[q.v + 1]>>
                                  \o (IF digs = point THEN <<".">> ELSE <<>>))
              ELSE pd_next_digit(ds, q, digs))
        ELSE (IF ~tc2
              THEN [ds |-> ds \o <<LowerDigits[q.v + 1]>>, digs |-> digs, spilled |-> FALSE]
              ELSE IF (round /\ tc3 <= 0) \/ (~round /\ tc3 < 0)
              THEN [ds |-> ds \o <<LowerDigits[q.v + 1]>>, digs |-> digs, spilled |-> FALSE]
              ELSE pd_next_digit(ds, q, digs))

pd_step(qr, s, mm, mp2, round, point, digs, ds) ==
    pd_digit(qr.q, qr.r, s, mm, IF mp2 THEN Scm_Ash(mm, 1) ELSE mm, mp2, round, point, digs, ds)

pd_generate(r, s, mm, mp2, round, point, digs, ds) ==
    pd_step(Scm_Quotient(Scm_Mul(r, SCM_MAKE_INT(10)), s), s, Scm_Mul(mm, SCM_MAKE_INT(10)),
            mp2, round, point, digs, ds)

\* print_double: "print the trailing zeros if necessary"
RECURSIVE pd_trailing(_, _, _)
pd_trailing(ds, digs, point) ==
    IF digs < point THEN pd_trailing(ds \o <<"0">>, digs + 1, point)
    ELSE ds \o <<".", "0">>

\* print_double: the show_exponent: label; est is the exponent plus one
show_exponent(ds, est, exp_width) ==
    IF est - 1 = 0 THEN ds
    ELSE LET zbuf == sprintf_d(IAbs(est - 1))
         IN  ds \o <<"e">> \o (IF est - 1 < 0 THEN <<"-">> ELSE <<>>)
                \o [i \in 1 .. (IF Len(zbuf) < exp_width THEN exp_width - Len(zbuf) ELSE 0) |-> "0"]
                \o zbuf

\* print_double from the digits on: g is what the digit loop returned
pd_finish(g, numstart, point, est, exp_width) ==
    LET ds == IF g.spilled THEN spill_fixup(g.ds, numstart) ELSE g.ds
    IN  show_exponent(IF g.digs <= point THEN pd_trailing(ds, g.digs, point) ELSE ds,
                      est, exp_width)

\* print_double from the position of the decimal point on
pd_point(ds, i, round, point, est, exp_width) ==
    pd_finish(pd_generate(i.r, i.s, i.mm, i.mp2, round, point, 1,
                          IF point <= 0 THEN pd_zeros(ds, point, point) ELSE ds),
              Len(ds), point, est, exp_width)

\* print_double after the fixup, est being final
pd_window(ds, i, round, est, exp_lo, exp_hi, exp_width) ==
    IF est < exp_hi /\ est > exp_lo THEN ScmCall("pd_point", <<ds, i, round, est, 1, exp_width>>)
    ELSE ScmCall("pd_point", <<ds, i, round, 1, est, exp_width>>)

\* print_double from the scaled r, s and m- on
pd_scaled(ds, i, round, est, exp_lo, exp_hi, exp_width) ==
    IF pd_fixup(i, round)
    THEN ScmCall("pd_window", <<ds, [i EXCEPT !.s = Scm_Mul(i.s, SCM_MAKE_INT(10))], round, est + 1,
                   exp_lo, exp_hi, exp_width>>)
    ELSE ScmCall("pd_window", <<ds, i, round, est, exp_lo, exp_hi, exp_width>>)

\* print_double of a finite nonzero double, from Scm_DecodeFlonum on
pd_decoded(ds, val, dec, exp_lo, exp_hi, exp_width) ==
    pd_scaled(ds, pd_scale(pd_init(dec.f, dec.exp), Log10Est(val)), ~Scm_OddP(dec.f),
              Log10Est(val), exp_lo, exp_hi, exp_width)

\* print_double with precision -1, which switches off the limit of digits
\* and the notational rounding
print_double(val, plus_sign, exp_lo, exp_hi, exp_width) ==
    IF DIsZero(val)
    THEN (IF Scm_FlonumSign(val) > 0 THEN (IF plus_sign THEN <<"+">> ELSE <<>>) ELSE <<"-">>)
             \o <<"0", ".", "0">>
    ELSE IF SCM_IS_INF(val)
    THEN (IF DLt(val, DZero(0)) THEN <<"-", "i", "n", "f", ".", "0">>
          ELSE <<"+", "i", "n", "f", ".", "0">>)
    ELSE IF SCM_IS_NAN(val) THEN <<"+", "n", "a", "n", ".", "0">>
    ELSE pd_decoded(IF DLt(val, DZero(0)) THEN <<"-">>
                    ELSE IF plus_sign THEN <<"+">> ELSE <<>>,
                    IF DLt(val, DZero(0)) THEN DNeg(val) ELSE val,
                    Scm_DecodeFlonum(IF DLt(val, DZero(0)) THEN DNeg(val) ELSE val),
                    exp_lo, exp_hi, exp_width)

\* Scm_NumberFormatInit: the defaults of ScmNumberFormat
Scm_NumberFormatInit ==
    [flags |-> {}, radix |-> 10, precision |-> -1, exp_lo |-> -3, exp_hi |-> 10,
     exp_width |-> 0]

\* the digits of value > 0 in radix, the most significant first
RECURSIVE IntDigits(_, _, _)
IntDigits(value, rdx, use_upper) ==
    IF value > 0
    THEN IntDigits(CDiv(value, rdx), rdx, use_upper) \o <<DigitChar(CRem(value, rdx), use_upper)>>
    ELSE <<>>

\* bignum.c: the digits of a bignum with its sign
Scm_BignumToString(b, rdx, use_upper) ==
    IF b.v = 0 THEN <<"0">>
    ELSE (IF b.v < 0 THEN <<"-">> ELSE <<>>) \o IntDigits(IAbs(b.v), rdx, use_upper)

print_radix_prefix(rdx) ==
    CASE rdx = 2 -> <<"#", "b">>
      [] rdx = 8 -> <<"#", "o">>
      [] rdx = 10 -> <<"#", "d">>
      [] rdx = 16 -> <<"#", "x">>
      [] OTHER -> <<"#">> \o sprintf_d(rdx) \o <<"r">>

\* flags is the set of the names of the bits that are set, without the
\* prefix SCM_NUMBER_FORMAT_; only precision -1 is modelled
RECURSIVE print_number(_, _, _)
print_number(obj, fl, fmt) ==
    (IF "ALT_RADIX" \in fl /\ SCM_EXACTP(obj) THEN print_radix_prefix(fmt.radix) ELSE <<>>) \o
    (IF SCM_INTP(obj)
     THEN (IF obj.v < 0 THEN <<"-">> ELSE IF "SHOW_PLUS" \in fl THEN <<"+">> ELSE <<>>)
              \o (IF obj.v = 0 THEN <<"0">>
                  ELSE IntDigits(IAbs(obj.v), fmt.radix, "USE_UPPER" \in fl))
     ELSE IF SCM_BIGNUMP(obj)
     THEN (IF "SHOW_PLUS" \in fl /\ Scm_Sign(obj) >= 0 THEN <<"+">> ELSE <<>>)
              \o Scm_BignumToString(obj, fmt.radix, "USE_UPPER" \in fl)
     ELSE IF SCM_FLONUMP(obj)
     THEN ScmCall("print_double", <<obj.d, "SHOW_PLUS" \in fl, fmt.exp_lo, fmt.exp_hi, fmt.exp_width>>)
     ELSE IF SCM_RATNUMP(obj)
     THEN print_number(obj.numer, fl \ {"ALT_RADIX"}, fmt) \o <<"/">>
              \o print_number(obj.denom, fl \ {"ALT_RADIX", "SHOW_PLUS"}, fmt)
     ELSE IF SCM_COMPNUMP(obj)
     THEN ScmCall("print_double", <<obj.real, "SHOW_PLUS" \in fl, fmt.exp_lo, fmt.exp_hi, fmt.exp_width>>)
              \o ScmCall("print_double", <<obj.imag, TRUE, fmt.exp_lo, fmt.exp_hi, fmt.exp_width>>)
              \o <<"i">>
     ELSE <<>>)

Scm_PrintNumber(n, fmt) == print_number(n, fmt.flags, fmt)

Scm_MakeString(s) == [k |-> "String", s |-> s]

number_to_string(obj, rdx, fl) ==
    IF rdx < SCM_RADIX_MIN \/ rdx > SCM_RADIX_MAX THEN ScmError("radix out of range")
    ELSE IF ~SCM_NUMBERP(obj) THEN ScmError("number required")
    ELSE Scm_MakeString(Scm_PrintNumber(obj, [Scm_NumberFormatInit EXCEPT !.flags = fl,
                                                                          !.radix = rdx]))

(***************************************************************************)
(* Number parser.  A pointer into the buffer is the count of characters    *)
(* before it; a reader returns its value with the pointer, the remaining   *)
(* length and the packet as it leaves them.                                *)
(***************************************************************************)
ULONG_WRAP(v) == v % Pow2(WordBits)

\* floor((double)LONG_MAX/radix - radix) of Scm__InitNumber, computed in doubles
LongLimitFloor(rdx) ==
    LET a == round_to_double(0, LONG_MAX, 1, 0)
        b == round_to_double(0, rdx, 1, 0)
        q == round_to_double(0, DUnits(a), DUnits(b), 0)
        u == DUnits(q) - DUnits(b)
    IN  DUnits(round_to_double(IF u < 0 THEN 1 ELSE 0, IAbs(u), DIntUnits, 0)) \div DIntUnits

\* (u_long) of a double of integral value v: v when u_long holds it; otherwise
\* the conversion is undefined, and a build saturates or wraps
ULongOfDouble(v) == IF 0 <= v /\ v < Pow2(WordBits) THEN {v} ELSE {0, ULONG_WRAP(v)}

\* the radixes whose table entries the callers use
Radixes == {2, 3, 10, 19}

\* the tables longlimit[] that Scm__InitNumber can leave
RECURSIVE LongLimitTablesOver(_)
LongLimitTablesOver(R) ==
    IF R = {} THEN {<<>>}
    ELSE LET r == CHOOSE x \in R : TRUE
         IN  {(r :> v) @@ t : v \in ULongOfDouble(LongLimitFloor(r)),
                              t \in LongLimitTablesOver(R \ {r})}

LongLimitTables == LongLimitTablesOver(Radixes)

\* the loop of Scm__InitNumber that finds longdigs[] and bigdig[]
RECURSIVE InitDigs(_, _, _)
InitDigs(rdx, i, n) ==
    IF n >= LONG_MAX \div rdx THEN [longdigs |-> i - 1, bigdig |-> n]
    ELSE InitDigs(rdx, i + 1, ULONG_WRAP(n * rdx))

longdigs(rdx) == InitDigs(rdx, 0, 1).longdigs

bigdig(rdx) == InitDigs(rdx, 0, 1).bigdig

NOEXACT == "NOEXACT"

EXACT == "EXACT"

INEXACT == "INEXACT"

NULL == [k |-> "Null"]

\* bignum.c
Scm_MakeBignumWithSize(size, init) == [k |-> "Bignum", v |-> init]

\* bignum.c: acc * coef + c
Scm_BignumAccMultAddUI(acc, coef, c) == [k |-> "Bignum", v |-> acc.v * coef + c]

numread_error(msg, ctx) == IF ctx.throwerror THEN ScmError(msg) ELSE SCM_FALSE

\* what a reader returns
Read(v, str, len, ctx) == [v |-> v, str |-> str, len |-> len, ctx |-> ctx]

\* the place of c in tab[] below radix, or -1
DigVal(c, rdx) ==
    IF \E i \in 1 .. rdx : LowerDigits[i] = c
    THEN (CHOOSE i \in 1 .. rdx : LowerDigits[i] = c) - 1
    ELSE -1

\* read_uint: one digit is added to the value
ru_digit(u, digval) ==
    LET value_int == ULONG_WRAP(u.value_int * u.ctx.radix + digval)
        digits    == u.digits + 1
    IN  IF u.value_big = NULL
        THEN (IF value_int >= longlimit[u.ctx.radix]
              THEN [u EXCEPT !.value_big = Scm_MakeBignumWithSize(4, value_int),
                             !.value_int = 0, !.digits = 0]
              ELSE [u EXCEPT !.value_int = value_int, !.digits = digits])
        ELSE IF digits > longdigs(u.ctx.radix)
        THEN [u EXCEPT !.value_big = Scm_BignumAccMultAddUI(u.value_big, bigdig(u.ctx.radix),
                                                            value_int),
                       !.value_int = 0, !.digits = 0]
        ELSE [u EXCEPT !.value_int = value_int, !.digits = digits]

\* read_uint: the loop while (len--)
RECURSIVE ru_loop(_, _)
ru_char(buf, n, c) ==
    IF n.ctx.explicit /\ ~n.ctx.strict /\ c = "_" THEN ru_loop(buf, n)
    ELSE IF n.ctx.padread
    THEN (IF c = "#" THEN ru_loop(buf, ru_digit(n, 0)) ELSE n)
    ELSE IF n.digread /\ c = "#"
    THEN ru_loop(buf, ru_digit([n EXCEPT !.ctx.padread = TRUE,
                                         !.ctx.exactness = IF @ = NOEXACT THEN INEXACT ELSE @],
                               0))
    ELSE IF DigVal(c, n.ctx.radix) >= 0
    THEN ru_loop(buf, ru_digit([n EXCEPT !.digread = TRUE], DigVal(c, n.ctx.radix)))
    ELSE n

ru_loop(buf, u) ==
    IF u.len = 0 THEN [u EXCEPT !.len = -1]
    ELSE ru_char(buf, [u EXCEPT !.str = u.str + 1, !.len = u.len - 1], tolower(At(buf, u.str)))

\* read_uint: the leading zeros
RECURSIVE ru_zeros(_, _)
ru_zeros(buf, u) ==
    IF u.len > 0 /\ At(buf, u.str) = "0"
    THEN ru_zeros(buf, [u EXCEPT !.str = u.str + 1, !.len = u.len - 1])
    ELSE u

\* read_uint: the state before the loop
ru_init(buf, str, len, ctx, initval) ==
    LET u == [str |-> str, len |-> len, ctx |-> ctx, digread |-> FALSE, digits |-> 0,
              value_int |-> 0, value_big |-> NULL]
    IN  IF ~SCM_FALSEP(initval)
        THEN (IF SCM_INTP(initval)
              THEN (IF ULONG_WRAP(initval.v) > longlimit[ctx.radix]
                    THEN [u EXCEPT !.value_big = Scm_MakeBignumWithSize(4, initval.v),
                                   !.digread = TRUE]
                    ELSE [u EXCEPT !.value_int = ULONG_WRAP(initval.v), !.digread = TRUE])
              ELSE IF SCM_BIGNUMP(initval)
              THEN [u EXCEPT !.value_big = initval, !.digread = TRUE]
              ELSE [u EXCEPT !.digread = TRUE])
        ELSE IF At(buf, str) = "0" THEN ru_zeros(buf, [u EXCEPT !.digread = TRUE])
        ELSE u

\* read_uint: the value and the pointers after the loop
ru_return(u) ==
    Read(IF u.value_big = NULL
         THEN Scm_MakeInteger(IF u.value_int > LONG_MAX THEN u.value_int - Pow2(WordBits)
                              ELSE u.value_int)
         ELSE IF u.digits > 0
         THEN Scm_NormalizeBignum(Scm_BignumAccMultAddUI(u.value_big,
                                                         ipow(u.ctx.radix, u.digits),
                                                         u.value_int))
         ELSE Scm_NormalizeBignum(u.value_big),
         u.str - 1, u.len + 1, u.ctx)

read_uint(buf, str, len, ctx, initval) == ru_return(ru_loop(buf, ru_init(buf, str, len, ctx, initval)))

\* max N where 10.0^N is held exactly, as the source has it: 23 for the 53
\* bits of binary64, where 5^22 < 2^53 < 5^23
RECURSIVE Pow5(_)
Pow5(n) == IF n = 0 THEN 1 ELSE 5 * Pow5(n - 1)

MAX_EXACT_10_EXP ==
    CHOOSE n \in 1 .. DblPrec : Pow5(n - 1) < Pow2(DblPrec) /\ Pow2(DblPrec) < Pow5(n)

\* the double the literal 1.0eN denotes
dpow10(n) == DRound(0, Pow10(n), 1, 0)

RECURSIVE raise_pow10(_, _)
raise_pow10(x, n) ==
    IF n >= 0
    THEN (IF n > MAX_EXACT_10_EXP
          THEN raise_pow10(DMul(x, dpow10(MAX_EXACT_10_EXP + 1)), n - (MAX_EXACT_10_EXP + 1))
          ELSE DMul(x, dpow10(n)))
    ELSE (IF n < -MAX_EXACT_10_EXP
          THEN raise_pow10(DDiv(x, dpow10(MAX_EXACT_10_EXP + 1)), n + (MAX_EXACT_10_EXP + 1))
          ELSE DDiv(x, dpow10(-n)))

\* algorithmR: x and y at the label retry
aR_retry(f, e, m, k) ==
    IF k >= 0
    THEN (IF e >= 0 THEN [x |-> Scm_Mul(f, iexpt10(e)), y |-> Scm_Ash(m, k)]
          ELSE [x |-> f, y |-> Scm_Ash(Scm_Mul(m, iexpt10(-e)), k)])
    ELSE (IF e >= 0 THEN [x |-> Scm_Ash(Scm_Mul(f, iexpt10(e)), -k), y |-> m]
          ELSE [x |-> Scm_Ash(f, -k), y |-> Scm_Mul(m, iexpt10(-e))])

\* algorithmR: "ret", "prev" or "next" from the comparison of x and y
aR_decide(m, k, y, sign_d, d2) ==
    LET c == Scm_NumCmp(d2, y).v
    IN  IF c = -1
        THEN (IF Scm_NumCmp(m, SCM_2_52).v = 0 /\ sign_d < 0 /\ k > DblEMin
                 /\ Scm_NumCmp(Scm_Ash(d2, 1), y).v > 0
              THEN "prev" ELSE "ret")
        ELSE IF c = 0
        THEN (IF ~Scm_OddP(m)
              THEN (IF Scm_NumCmp(m, SCM_2_52).v = 0 /\ sign_d < 0 THEN "prev" ELSE "ret")
              ELSE IF sign_d < 0 THEN "prev" ELSE "next")
        ELSE IF sign_d < 0 THEN "prev" ELSE "next"

\* algorithmR: m and k at the labels prevfloat and nextfloat
aR_prevfloat(m, k) ==
    IF k > DblEMin /\ Scm_NumCmp(m, SCM_2_52).v < 0 THEN [m |-> Scm_Ash(m, 1), k |-> k - 1]
    ELSE [m |-> m, k |-> k]

aR_nextfloat(m, k) ==
    IF Scm_NumCmp(m, SCM_2_53).v >= 0 THEN [m |-> Scm_Ash(m, -1), k |-> k + 1]
    ELSE [m |-> m, k |-> k]

RECURSIVE aR_compare(_, _, _, _, _, _, _)
\* algorithmR: the label next, with the new m and k in n
aR_next(f, e, n, x, kprev) ==
    IF kprev >= 0
    THEN (IF n.k >= 0
          THEN ScmCall("aR_compare", <<f, e, n.m, n.k, x,
                          IF e >= 0 THEN Scm_Ash(n.m, n.k)
                          ELSE Scm_Ash(Scm_Mul(n.m, iexpt10(-e)), n.k),
                          kprev>>)
          ELSE ScmCall("aR_compare", <<f, e, n.m, n.k, ScmCall("aR_retry", <<f, e, n.m, n.k>>).x,
                          ScmCall("aR_retry", <<f, e, n.m, n.k>>).y, n.k>>))
    ELSE (IF n.k < 0
          THEN (IF e >= 0
                THEN ScmCall("aR_compare", <<f, e, n.m, n.k,
                                IF n.k # kprev THEN Scm_Ash(Scm_Mul(f, iexpt10(e)), -n.k) ELSE x,
                                n.m, kprev>>)
                ELSE ScmCall("aR_compare", <<f, e, n.m, n.k,
                                IF n.k # kprev THEN Scm_Ash(f, -n.k) ELSE x,
                                Scm_Mul(n.m, iexpt10(-e)), kprev>>))
          ELSE ScmCall("aR_compare", <<f, e, n.m, n.k, ScmCall("aR_retry", <<f, e, n.m, n.k>>).x,
                          ScmCall("aR_retry", <<f, e, n.m, n.k>>).y, n.k>>))

aR_step(f, e, m, k, x, y, kprev, go) ==
    IF go = "ret" THEN ldexp(Scm_GetDouble(m), k)
    ELSE IF go = "prev"
    THEN aR_next(f, e, aR_prevfloat(Scm_Sub(m, SCM_MAKE_INT(1)), k), x, kprev)
    ELSE aR_next(f, e, aR_nextfloat(Scm_Add(m, SCM_MAKE_INT(1)), k), x, kprev)

aR_compare(f, e, m, k, x, y, kprev) ==
    aR_step(f, e, m, k, x, y, kprev,
            aR_decide(m, k, y, Scm_NumCmp(x, y).v,
                      Scm_Ash(Scm_Mul(m, IF Scm_NumCmp(x, y).v > 0 THEN Scm_Sub(x, y)
                                         ELSE Scm_Sub(y, x)), 1)))

\* the double closest to f * 10^e, from the approximation z
algorithmR(f, e, z) ==
    ScmCall("aR_compare", <<f, e, Scm_DecodeFlonum(z).f, Scm_DecodeFlonum(z).exp,
               ScmCall("aR_retry", <<f, e, Scm_DecodeFlonum(z).f, Scm_DecodeFlonum(z).exp>>).x,
               ScmCall("aR_retry", <<f, e, Scm_DecodeFlonum(z).f, Scm_DecodeFlonum(z).exp>>).y,
               Scm_DecodeFlonum(z).exp>>)

\* the exponent limit of the parser, as the source has it: 325 for binary64,
\* whose least denormal is 2^-1074 and 10^324 the least power of ten above
\* 2^1075
MAX_EXPONENT == (CHOOSE n \in 1 .. DblDenorm + 1 :
                    Pow10(n - 1) <= Pow2(DblDenorm + 1) /\ Pow2(DblDenorm + 1) < Pow10(n)) + 1

\* expt(x, y) where x is exact and y is integer: the general case
RECURSIVE eie_loop(_, _, _)
eie_loop(r, x, iy) ==
    IF iy = 0 THEN r
    ELSE IF iy = 1 THEN Scm_Mul(r, x)
    ELSE eie_loop(IF iy % 2 = 1 THEN Scm_Mul(r, x) ELSE r, Scm_Mul(x, x), iy \div 2)

eie_return(sign, r) == IF sign < 0 THEN Scm_Reciprocal(r) ELSE r

\* exact_integer_expt with the shortcuts taken for a negative exponent too
exact_integer_expt_unsigned(x, y) ==
    IF Scm_Sign(y) = 0 THEN SCM_MAKE_INT(1)
    ELSE IF x = SCM_MAKE_INT(1) THEN SCM_MAKE_INT(1)
    ELSE IF x = SCM_MAKE_INT(-1) THEN (IF Scm_OddP(y) THEN SCM_MAKE_INT(-1) ELSE SCM_MAKE_INT(1))
    ELSE IF ~SCM_INTP(y) THEN ScmError("exponent too big")
    ELSE IF x = SCM_MAKE_INT(10) /\ IAbs(y.v) < IEXPT10_TABLESIZ
    THEN eie_return(Scm_Sign(y), iexpt10_n(IAbs(y.v)))
    ELSE IF x = SCM_MAKE_INT(2)
    THEN eie_return(Scm_Sign(y), Scm_Ash(SCM_MAKE_INT(1), y.v))
    ELSE eie_return(Scm_Sign(y), eie_loop(SCM_MAKE_INT(1), x, IAbs(y.v)))

exact_integer_expt(x, y) ==
    IF Scm_Sign(y) = 0 THEN SCM_MAKE_INT(1)
    ELSE IF x = SCM_MAKE_INT(1) THEN SCM_MAKE_INT(1)
    ELSE IF x = SCM_MAKE_INT(-1) THEN (IF Scm_OddP(y) THEN SCM_MAKE_INT(-1) ELSE SCM_MAKE_INT(1))
    ELSE IF ~SCM_INTP(y) THEN ScmError("exponent too big")
    ELSE IF x = SCM_MAKE_INT(10) /\ y.v > 0 /\ y.v < IEXPT10_TABLESIZ
    THEN eie_return(Scm_Sign(y), iexpt10_n(y.v))
    ELSE IF x = SCM_MAKE_INT(2) /\ y.v > 0
    THEN eie_return(Scm_Sign(y), Scm_Ash(SCM_MAKE_INT(1), y.v))
    ELSE eie_return(Scm_Sign(y), eie_loop(SCM_MAKE_INT(1), x, IAbs(y.v)))

Scm_ExactIntegerExpt(x, y) == ScmCall("Scm_ExactIntegerExpt", <<x, y>>)

\* strncasecmp(str, word, 5) == 0, word in lower case
strncasecmp5(buf, str, word) == \A i \in 1 .. 5 : tolower(At(buf, str + i - 1)) = word[i]

rr_sign(minusp, v) == IF minusp THEN Scm_Negate(v) ELSE v

rr_infinity(minusp) == IF minusp THEN SCM_NEGATIVE_INFINITY ELSE SCM_POSITIVE_INFINITY

\* read_real: "Compose the number" in a context that is not EXACT
rr_realnum(fraction, raise_factor, realnum, minusp) ==
    IF SCM_IS_INF(realnum) THEN rr_infinity(minusp)
    ELSE IF DGt(realnum, DZero(0))
            /\ (Scm_NumCmp(fraction, SCM_2_52).v > 0
                \/ raise_factor > MAX_EXACT_10_EXP
                \/ raise_factor < -MAX_EXACT_10_EXP)
    THEN Scm_MakeFlonum(IF minusp THEN DNeg(ScmCall("algorithmR", <<fraction, raise_factor, realnum>>))
                        ELSE ScmCall("algorithmR", <<fraction, raise_factor, realnum>>))
    ELSE Scm_MakeFlonum(IF minusp THEN DNeg(realnum) ELSE realnum)

rr_double(fraction, raise_factor, realnum, minusp) ==
    IF SCM_IS_INF(realnum)
    THEN (IF raise_factor >= 0 THEN rr_infinity(minusp)
          ELSE rr_realnum(fraction, raise_factor,
                          Scm_GetDouble(Scm_Div(fraction, iexpt10(-raise_factor))), minusp))
    ELSE rr_realnum(fraction, raise_factor, raise_pow10(realnum, raise_factor), minusp)

\* rr_compose with a fault: the zero of an exponent out of range loses the
\* sign of the literal
rr_compose_unsigned(f, fracdigs, exponent, exp_overflow, exp_minusp, minusp) ==
    IF exp_overflow
    THEN (IF f.ctx.exactness = EXACT
          THEN numread_error("(such an exact number is out of implementation limitation)", f.ctx)
          ELSE IF exp_minusp \/ f.v = SCM_MAKE_INT(0)
          THEN Scm_MakeFlonum(DZero(0))
          ELSE rr_infinity(minusp))
    ELSE IF f.ctx.exactness = EXACT
    THEN rr_sign(minusp, Scm_Mul(f.v, Scm_ExactIntegerExpt(SCM_MAKE_INT(10),
                                                           Scm_MakeInteger(exponent - fracdigs))))
    ELSE rr_double(f.v, exponent - fracdigs, Scm_GetDouble(f.v), minusp)

\* read_real from "if (exp_overflow)" on; exponent has its sign
rr_compose(f, fracdigs, exponent, exp_overflow, exp_minusp, minusp) ==
    IF exp_overflow
    THEN (IF f.ctx.exactness = EXACT
          THEN numread_error("(such an exact number is out of implementation limitation)", f.ctx)
          ELSE IF exp_minusp \/ f.v = SCM_MAKE_INT(0)
          THEN Scm_MakeFlonum(DZero(IF minusp THEN 1 ELSE 0))
          ELSE rr_infinity(minusp))
    ELSE IF f.ctx.exactness = EXACT
    THEN rr_sign(minusp, Scm_Mul(f.v, Scm_ExactIntegerExpt(SCM_MAKE_INT(10),
                                                           Scm_MakeInteger(exponent - fracdigs))))
    ELSE rr_double(f.v, exponent - fracdigs, Scm_GetDouble(f.v), minusp)

\* read_real: the digits of the exponent
RECURSIVE rr_exp_digits(_, _)
rr_exp_digits(buf, x) ==
    IF x.len > 0 /\ isdigit(At(buf, x.str))
    THEN rr_exp_digits(buf,
             IF x.overflow THEN [x EXCEPT !.str = @ + 1, !.len = @ - 1]
             ELSE [x EXCEPT !.str = @ + 1, !.len = @ - 1,
                            !.exponent = @ * 10 + DigitValue(At(buf, x.str)),
                            !.overflow = x.exponent * 10 + DigitValue(At(buf, x.str))
                                             >= MAX_EXPONENT])
    ELSE x

rr_exp_done(f, fracdigs, x, exp_minusp, minusp) ==
    Read(ScmCall("rr_compose", <<f, fracdigs, IF exp_minusp THEN -x.exponent ELSE x.exponent, x.overflow,
                    exp_minusp, minusp>>),
         x.str, x.len, f.ctx)

\* read_real: the sign of the exponent, at str with len left
rr_exp_sign(buf, f, fracdigs, str, len, minusp) ==
    IF At(buf, str) \in {"-", "+"}
    THEN (IF len - 1 <= 0 THEN Read(SCM_FALSE, str + 1, len - 1, f.ctx)
          ELSE rr_exp_done(f, fracdigs,
                           rr_exp_digits(buf, [str |-> str + 1, len |-> len - 1, exponent |-> 0,
                                               overflow |-> FALSE]),
                           At(buf, str) = "-", minusp))
    ELSE rr_exp_done(f, fracdigs,
                     rr_exp_digits(buf, [str |-> str, len |-> len, exponent |-> 0,
                                         overflow |-> FALSE]),
                     FALSE, minusp)

\* read_real: "Read exponent"; f is the fraction as read
rr_exponent(buf, intpart, f, fracdigs, minusp, mark) ==
    IF SCM_FALSEP(intpart) /\ fracdigs = 0 THEN Read(SCM_FALSE, f.str, f.len, f.ctx)
    ELSE IF mark = f.str THEN Read(SCM_FALSE, f.str, f.len, f.ctx)
    ELSE IF f.len > 0 /\ At(buf, f.str) \in {"e", "E", "s", "S", "f", "F", "d", "D", "l", "L"}
    THEN (IF f.len - 1 <= 0 THEN Read(SCM_FALSE, f.str + 1, f.len - 1, f.ctx)
          ELSE rr_exp_sign(buf, f, fracdigs, f.str + 1, f.len - 1, minusp))
    ELSE Read(ScmCall("rr_compose", <<f, fracdigs, 0, FALSE, FALSE, minusp>>), f.str, f.len, f.ctx)

\* read_real: the fraction u has been read with lensave characters left
rr_fracdigs(buf, intpart, u, lensave, minusp, mark) ==
    rr_exponent(buf, intpart, u, lensave - u.len, minusp, mark)

\* read_real: "Read fractional part"; i is the integral part as read
rr_fraction(buf, i, minusp, mark) ==
    IF At(buf, i.str) = "."
    THEN (IF i.ctx.radix # 10
          THEN Read(numread_error("(only 10-based fraction is supported)", i.ctx),
                    i.str, i.len, i.ctx)
          ELSE rr_fracdigs(buf, i.v, ScmCall("read_uint", <<buf, i.str + 1, i.len - 1, i.ctx, i.v>>),
                           i.len - 1, minusp, mark))
    ELSE rr_exponent(buf, i.v, i, 0, minusp, mark)

\* read_real: the rational; d is the denominator as read
rr_rational(intpart, d, lensave, minusp) ==
    Read(IF SCM_FALSEP(d.v) THEN SCM_FALSE
         ELSE IF SCM_EXACT_ZERO_P(d.v)
         THEN (IF lensave > d.len
               THEN (IF d.ctx.exactness # INEXACT
                     THEN numread_error("(exact infinity/nan is not supported.)", d.ctx)
                     ELSE IF SCM_EXACT_ZERO_P(intpart) THEN SCM_NAN
                     ELSE rr_infinity(minusp))
               ELSE SCM_FALSE)
         ELSE IF d.ctx.exactness = INEXACT
         THEN Scm_Inexact(Scm_Div(rr_sign(minusp, intpart), d.v))
         ELSE Scm_MakeRational(rr_sign(minusp, intpart), d.v),
         d.str, d.len, d.ctx)

\* read_real: "Read integral part"; i is the integral part as read
rr_integral(buf, i, minusp, mark) ==
    IF i.len <= 0
    THEN Read(IF i.ctx.exactness = INEXACT THEN Scm_Inexact(rr_sign(minusp, i.v))
              ELSE rr_sign(minusp, i.v),
              i.str, i.len, i.ctx)
    ELSE IF At(buf, i.str) = "/"
    THEN (IF i.len <= 1 \/ mark = i.str THEN Read(SCM_FALSE, i.str, i.len, i.ctx)
          ELSE rr_rational(i.v, ScmCall("read_uint", <<buf, i.str + 1, i.len - 1, i.ctx, SCM_FALSE>>),
                           i.len - 1, minusp))
    ELSE ScmCall("rr_fraction", <<buf, i, minusp, mark>>)

\* read_real after the sign
rr_unsigned(buf, str, len, ctx, minusp, sign_seen) ==
    IF len <= 0 THEN Read(SCM_FALSE, str, len, ctx)
    ELSE IF sign_seen /\ len >= 5 /\ strncasecmp5(buf, str, <<"i", "n", "f", ".", "0">>)
    THEN Read(rr_infinity(minusp), str + 5, len - 5, ctx)
    ELSE IF sign_seen /\ len >= 5 /\ strncasecmp5(buf, str, <<"n", "a", "n", ".", "0">>)
    THEN Read(SCM_NAN, str + 5, len - 5, ctx)
    ELSE IF At(buf, str) # "."
    THEN rr_integral(buf, ScmCall("read_uint", <<buf, str, len, ctx, SCM_FALSE>>), minusp, str)
    ELSE ScmCall("rr_fraction", <<buf, Read(SCM_FALSE, str, len, ctx), minusp, str>>)

read_real(buf, str, len, ctx) ==
    IF At(buf, str) \in {"-", "+"}
    THEN ScmCall("rr_unsigned", <<buf, str + 1, len - 1, ctx, At(buf, str) = "-", TRUE>>)
    ELSE ScmCall("rr_unsigned", <<buf, str, len, ctx, FALSE, FALSE>>)

\* libm at the angle zero, the one the callers pass
cos(x) == DFin(0, Pow2(DblPrec - 1), 1 - DblPrec)

sin(x) == x

\* a complex number given by magnitude and angle, kept in polar form when
\* the angle is not zero
Scm_MakeComplexPolar(mag, angle) ==
    IF DIsZero(angle) THEN Scm_MakeComplex(DMul(mag, cos(angle)), DMul(mag, sin(angle)))
    ELSE [k |-> "Polar", mag |-> mag, angle |-> angle, pi |-> FALSE]

Scm_MakeComplexPolarPI(mag, angle) ==
    IF DIsZero(angle) THEN Scm_MakeComplex(DMul(mag, cos(angle)), DMul(mag, sin(angle)))
    ELSE [k |-> "Polar", mag |-> mag, angle |-> angle, pi |-> TRUE]

\* CHK_EXACT_COMPLEX(): the value v is returned unless the context is EXACT
CHK_EXACT_COMPLEX(ctx, v) ==
    IF ctx.exactness = EXACT THEN numread_error("(exact complex number is not supported)", ctx)
    ELSE v

\* read_number: the polar form; a is the angle as read
rn_polar(buf, realpart, a) ==
    IF SCM_FALSEP(a.v) THEN SCM_FALSE
    ELSE IF ~(a.len = 2 /\ At(buf, a.str) = "p" /\ At(buf, a.str + 1) = "i") /\ a.len # 0
    THEN SCM_FALSE
    ELSE CHK_EXACT_COMPLEX(a.ctx,
             IF a.len = 2 /\ At(buf, a.str) = "p" /\ At(buf, a.str + 1) = "i"
             THEN Scm_MakeComplexPolarPI(Scm_GetDouble(realpart), Scm_GetDouble(a.v))
             ELSE Scm_MakeComplexPolar(Scm_GetDouble(realpart), Scm_GetDouble(a.v)))

\* read_number: the rectangular form; i is the imaginary part as read
rn_rect(buf, realpart, i) ==
    IF SCM_FALSEP(i.v) \/ i.len # 1 \/ At(buf, i.str) \notin {"i", "I"} THEN SCM_FALSE
    ELSE CHK_EXACT_COMPLEX(i.ctx,
             IF Scm_Sign(i.v) = 0 THEN realpart
             ELSE Scm_MakeComplex(Scm_GetDouble(realpart), Scm_GetDouble(i.v)))

\* read_number after the first real; r is the real as read
rn_complex(buf, r, sign_seen) ==
    IF SCM_FALSEP(r.v) \/ IsError(r.v) \/ r.len = 0 THEN r.v
    ELSE IF At(buf, r.str) = "@"
    THEN (IF r.len <= 1 THEN SCM_FALSE
          ELSE rn_polar(buf, r.v, ScmCall("read_real", <<buf, r.str + 1, r.len - 1, r.ctx>>)))
    ELSE IF At(buf, r.str) \in {"+", "-"}
    THEN (IF r.len <= 1 THEN SCM_FALSE
          ELSE IF r.len = 2 /\ At(buf, r.str + 1) \in {"i", "I"}
          THEN Scm_MakeComplex(Scm_GetDouble(r.v),
                               DFin(IF At(buf, r.str) = "+" THEN 0 ELSE 1, Pow2(DblPrec - 1), 1 - DblPrec))
          ELSE rn_rect(buf, r.v, ScmCall("read_real", <<buf, r.str, r.len, r.ctx>>)))
    ELSE IF At(buf, r.str) \in {"i", "I"}
    THEN (IF ~sign_seen \/ r.len # 1 THEN SCM_FALSE
          ELSE CHK_EXACT_COMPLEX(r.ctx,
                   IF Scm_Sign(r.v) = 0 THEN Scm_MakeFlonum(DZero(0))
                   ELSE Scm_MakeComplex(DZero(0), Scm_GetDouble(r.v))))
    ELSE SCM_FALSE

\* read_number: "number body"
rn_body(buf, str, len, ctx) ==
    IF len <= 0 THEN SCM_FALSE
    ELSE IF At(buf, str) \in {"+", "-"}
    THEN (IF len = 1 THEN SCM_FALSE
          ELSE IF len = 2 /\ At(buf, str + 1) \in {"i", "I"}
          THEN CHK_EXACT_COMPLEX(ctx, Scm_MakeComplex(DZero(0),
                                     DFin(IF At(buf, str) = "+" THEN 0 ELSE 1, Pow2(DblPrec - 1), 1 - DblPrec)))
          ELSE rn_complex(buf, ScmCall("read_real", <<buf, str, len, ctx>>), TRUE))
    ELSE rn_complex(buf, ScmCall("read_real", <<buf, str, len, ctx>>), FALSE)

\* libgauche: the long that the leading decimal digits of the buffer denote,
\* and the count of them
RECURSIVE Scm_ParseDigitsAsLong(_, _, _, _, _)
Scm_ParseDigitsAsLong(buf, str, len, acc, nread) ==
    IF len > 0 /\ isdigit(At(buf, str)) /\ acc * 10 + DigitValue(At(buf, str)) <= LONG_MAX
    THEN Scm_ParseDigitsAsLong(buf, str + 1, len - 1, acc * 10 + DigitValue(At(buf, str)),
                               nread + 1)
    ELSE [v |-> acc, nread |-> nread]

\* read_number: "start from prefix part"; p holds str, len, ctx and the
\* counts radix_seen and exactness_seen; the result has v = SCM_FALSE when a
\* prefix is rejected
RECURSIVE rn_prefix(_, _)
rn_radix(buf, p, rdx) ==
    IF p.ctx.noradixprefix \/ p.radix_seen > 0 THEN [p EXCEPT !.v = SCM_FALSE]
    ELSE rn_prefix(buf, [p EXCEPT !.ctx.radix = rdx, !.ctx.explicit = TRUE, !.radix_seen = 1,
                                  !.str = @ + 2, !.len = @ - 2])

rn_exactness(buf, p, e) ==
    IF p.exactness_seen > 0 THEN [p EXCEPT !.v = SCM_FALSE]
    ELSE rn_prefix(buf, [p EXCEPT !.ctx.exactness = e, !.ctx.explicit = TRUE,
                                  !.exactness_seen = 1, !.str = @ + 2, !.len = @ - 2])

\* the prefix #<digits>r; d is what Scm_ParseDigitsAsLong read at str + 1
rn_digits(buf, p, d) ==
    IF d.v < SCM_RADIX_MIN \/ d.v > SCM_RADIX_MAX THEN [p EXCEPT !.v = SCM_FALSE]
    ELSE IF p.len - 1 - d.nread <= 0 THEN [p EXCEPT !.v = SCM_FALSE]
    ELSE IF At(buf, p.str + 1 + d.nread) \notin {"r", "R"} THEN [p EXCEPT !.v = SCM_FALSE]
    ELSE rn_prefix(buf, [p EXCEPT !.ctx.radix = d.v, !.ctx.explicit = TRUE, !.radix_seen = 1,
                                  !.str = @ + 1 + d.nread + 1, !.len = @ - 1 - d.nread - 1])

rn_prefix(buf, p) ==
    IF p.len < 0 \/ At(buf, p.str) # "#" THEN p
    ELSE IF At(buf, p.str + 1) \in {"x", "X"} THEN rn_radix(buf, p, 16)
    ELSE IF At(buf, p.str + 1) \in {"o", "O"} THEN rn_radix(buf, p, 8)
    ELSE IF At(buf, p.str + 1) \in {"b", "B"} THEN rn_radix(buf, p, 2)
    ELSE IF At(buf, p.str + 1) \in {"d", "D"} THEN rn_radix(buf, p, 10)
    ELSE IF At(buf, p.str + 1) \in {"e", "E"} THEN rn_exactness(buf, p, EXACT)
    ELSE IF At(buf, p.str + 1) \in {"i", "I"} THEN rn_exactness(buf, p, INEXACT)
    ELSE IF isdigit(At(buf, p.str + 1))
    THEN (IF p.ctx.noradixprefix \/ p.ctx.strict \/ p.radix_seen > 0
          THEN [p EXCEPT !.v = SCM_FALSE]
          ELSE rn_digits(buf, p, Scm_ParseDigitsAsLong(buf, p.str + 1, p.len - 1, 0, 0)))
    ELSE [p EXCEPT !.v = SCM_FALSE]

rn_prefixed(buf, p) == IF SCM_FALSEP(p.v) THEN SCM_FALSE ELSE rn_body(buf, p.str, p.len, p.ctx)

\* ctx holds the packet without its buffer, which is buf
read_number(buf, ctx) ==
    IF ctx.radix < SCM_RADIX_MIN \/ ctx.radix > SCM_RADIX_MAX THEN SCM_FALSE
    ELSE rn_prefixed(buf, rn_prefix(buf, [v |-> NULL, str |-> 0, len |-> Len(buf), ctx |-> ctx,
                                          radix_seen |-> 0, exactness_seen |-> 0]))

\* fl is the set of the names of the flags that are set, without the prefix
\* SCM_NUMBER_FORMAT_; the string holds no multibyte character
string_to_number(str, rdx, fl) ==
    read_number(str, [exactness |-> IF "EXACT" \in fl THEN EXACT
                                    ELSE IF "INEXACT" \in fl THEN INEXACT ELSE NOEXACT,
                      padread |-> FALSE, explicit |-> FALSE, strict |-> "STRICT_R7RS" \in fl,
                      throwerror |-> FALSE, radix |-> rdx,
                      noradixprefix |-> "ALT_RADIX" \in fl])

Scm_NumberToString(obj, rdx, fl) == ScmCall("Scm_NumberToString", <<obj, rdx, fl>>)

Scm_StringToNumber(str, rdx, fl) == ScmCall("Scm_StringToNumber", <<str, rdx, fl>>)

(***************************************************************************)
\* scm_round, Ratnum: the quotient plus the offset
scm_round_return(quot, offset) ==
    IF offset = 0 THEN quot ELSE Scm_Add(quot, SCM_MAKE_INT(offset))

\* scm_round_round with halves rounded away from zero
scm_round_round_away(num, quot, cmp) ==
    IF IsError(cmp) THEN cmp
    ELSE IF cmp.v > 0 THEN scm_round_return(quot, 0)
    ELSE scm_round_return(quot, IF Scm_Sign(num) < 0 THEN -1 ELSE 1)

\* scm_round, Ratnum, SCM_ROUND_ROUND: cmp is what Scm_NumCmp(denominator, 2 |rem|) gave
scm_round_round(num, quot, cmp) ==
    IF IsError(cmp) THEN cmp
    ELSE IF cmp.v > 0 THEN scm_round_return(quot, 0)
    ELSE IF cmp.v < 0 THEN scm_round_return(quot, IF Scm_Sign(num) < 0 THEN -1 ELSE 1)
    ELSE IF Scm_OddP(quot) THEN scm_round_return(quot, IF Scm_Sign(num) < 0 THEN -1 ELSE 1)
    ELSE scm_round_return(quot, 0)

\* scm_round, Ratnum: qr is what Scm_Quotient(numerator, denominator, &rem) gave
scm_round_ratnum(num, mode_, qr) ==
    IF IsError(qr) THEN qr
    ELSE IF SCM_EXACT_ZERO_P(qr.r) THEN qr.q
    ELSE IF mode_ = "FLOOR" THEN scm_round_return(qr.q, IF Scm_Sign(num) < 0 THEN -1 ELSE 0)
    ELSE IF mode_ = "CEIL" THEN scm_round_return(qr.q, IF Scm_Sign(num) < 0 THEN 0 ELSE 1)
    ELSE IF mode_ = "TRUNC" THEN scm_round_return(qr.q, 0)
    ELSE scm_round_round(num, qr.q,
                         Scm_NumCmp(num.denom, Scm_Mul(Scm_Abs(qr.r), SCM_MAKE_INT(2))))

\* scm_round, Flonum
scm_round_flonum(v, mode_) ==
    IF mode_ = "FLOOR" THEN floor(v)
    ELSE IF mode_ = "CEIL" THEN ceil(v)
    ELSE IF mode_ = "TRUNC" THEN (IF DLt(v, DZero(0)) THEN ceil(v) ELSE floor(v))
    ELSE roundeven(v)

scm_round(num, mode_) ==
    IF SCM_INTEGERP(num) THEN num
    ELSE IF SCM_RATNUMP(num)
    THEN scm_round_ratnum(num, mode_, Scm_Quotient(num.numer, num.denom))
    ELSE IF SCM_FLONUMP(num) THEN Scm_MakeFlonum(PlusZero(scm_round_flonum(num.d, mode_)))
    ELSE ScmError("real number required")

Scm_Round(num, mode_) == ScmCall("Scm_Round", <<num, mode_>>)

ScmCall(fn, args) ==
    CASE fn = "Scm_Negate" -> negate(args[1])
      [] fn = "Scm_Abs" -> scm_abs(args[1])
      [] fn = "Scm_MakeRational" -> make_rational(args[1], args[2])
      [] fn = "Scm_Gcd" -> scm_gcd(args[1], args[2])
      [] fn = "Scm_NumCmp" -> numcmp(args[1], args[2])
      [] fn = "Scm_Add" -> scm_add(args[1], args[2])
      [] fn = "Scm_Sub" -> scm_sub(args[1], args[2])
      [] fn = "Scm_Mul" -> scm_mul(args[1], args[2])
      [] fn = "Scm_GetDouble" -> get_double(args[1])
      [] fn = "Scm_Quotient" -> scm_quotient(args[1], args[2])
      [] fn = "Scm_Modulo" -> scm_modulo(args[1], args[2], args[3])
      [] fn = "Scm_ReduceRational" -> reduce_rational(args[1])
      [] fn = "Scm_RatnumAddSub" -> Scm_RatnumAddSub(args[1], args[2], args[3])
      [] fn = "Scm_RatnumMulDiv" -> Scm_RatnumMulDiv(args[1], args[2], args[3])
      [] fn = "Scm_Reciprocal" -> reciprocal(args[1])
      [] fn = "Scm_Inexact" -> inexact(args[1])
      [] fn = "scm_div" -> scm_div(args[1], args[2], args[3], args[4])
      [] fn = "Scm_Exact" -> exact(args[1])
      [] fn = "DRound" -> round_to_double(args[1], args[2], args[3], args[4])
      [] fn = "Scm_ExactIntegerExpt" -> exact_integer_expt(args[1], args[2])
      [] fn = "Scm_NumberToString" -> number_to_string(args[1], args[2], args[3])
      [] fn = "Scm_StringToNumber" -> string_to_number(args[1], args[2], args[3])
      [] fn = "print_double" -> print_double(args[1], args[2], args[3], args[4], args[5])
      [] fn = "read_uint" -> read_uint(args[1], args[2], args[3], args[4], args[5])
      [] fn = "algorithmR" -> algorithmR(args[1], args[2], args[3])
      [] fn = "read_real" -> read_real(args[1], args[2], args[3], args[4])
      [] fn = "Scm_Round" -> scm_round(args[1], args[2])
      [] fn = "pd_point" -> pd_point(args[1], args[2], args[3], args[4], args[5], args[6])
      [] fn = "pd_window" -> pd_window(args[1], args[2], args[3], args[4], args[5], args[6], args[7])
      [] fn = "aR_retry" -> aR_retry(args[1], args[2], args[3], args[4])
      [] fn = "aR_compare" -> aR_compare(args[1], args[2], args[3], args[4], args[5], args[6], args[7])
      [] fn = "rr_compose" -> rr_compose(args[1], args[2], args[3], args[4], args[5], args[6])
      [] fn = "rr_fraction" -> rr_fraction(args[1], args[2], args[3], args[4])
      [] fn = "rr_unsigned" -> rr_unsigned(args[1], args[2], args[3], args[4], args[5], args[6])
      [] fn = "Scm_Ash" -> ash(args[1], args[2])
      [] fn = "ratnum_return" -> ratnum_return(args[1], args[2], args[3], args[4])
      [] fn = "inexact_return" -> inexact_return(args[1], args[2])
      [] fn = "compat_return" -> compat_return(args[1], args[2])
      [] fn = "simple_return" -> simple_return(args[1], args[2])
      [] fn = "anormal" -> anormal(args[1], args[2])
      [] fn = "anormal_comp" -> anormal_comp(args[1], args[2])
      [] fn = "do_complex" -> do_complex(args[1], args[2])
      [] fn = "quotient_flonum" -> quotient_flonum(args[1], args[2])
      [] fn = "modulo_flonum" -> modulo_flonum(args[1], args[2], args[3])

(***************************************************************************)
(* The state machine.  A caller holds two canonical numbers lhs and rhs,   *)
(* applies one operation of the library to them, which leaves its return   *)
(* value (or the error it signalled) in result and, for Scm_Quotient, the  *)
(* remainder in rem; it may then pass the value on as the left operand of  *)
(* the next operation.  carg is the C long given to Scm_MakeInteger and    *)
(* rempArg the remp flag given to Scm_Modulo; chain counts the operations  *)
(* already applied to reach lhs.                                           *)
(***************************************************************************)
NoValue == [k |-> "None"]

\* no string is being printed or read
NoText == text = <<>> /\ radix = 10 /\ flags = {}

\* Scm__InitNumber: the table longlimit[] is filled
InitNumber == longlimit \in LongLimitTables

\* threads that call the library at the same time
MaxThreads == 2

Threads == 1 .. MaxThreads

\* the entries of the table of the powers of ten that the threads fill: the
\* first is set by a literal, the rest by the loop of iexpt10_init
Iexpt10Entries == 3

\* the statics as the program starts, every thread outside the library:
\* iexpt10_tab is the array iexpt10_n[]; stores counts the stores made to
\* each entry and binds the calls of Scm_BindPrimitiveParameter; late records
\* a store to the table made when iexpt10_initialized was already set, and
\* unset a use of an entry or of the parameter that was still NULL
NoThreads ==
    /\ pc = [t \in Threads |-> "idle"]
    /\ fill_i = [t \in Threads |-> 0]
    /\ iexpt10_tab = [i \in 0 .. Iexpt10Entries - 1 |-> NULL]
    /\ iexpt10_initialized = FALSE
    /\ default_endian = NULL
    /\ default_endian_mutex = 0
    /\ stores = [i \in 0 .. Iexpt10Entries - 1 |-> 0]
    /\ binds = 0
    /\ late = FALSE
    /\ unset = FALSE

\* no integer has been asked for: clampArg and oorArg are the clamp policy
\* and whether a flag pointer is given to Scm_GetIntegerClamp and
\* Scm_GetIntegerUClamp
NoClamp == clampArg = "ERROR" /\ oorArg = FALSE

\* no rounding has been asked for
NoRound == mode = "none"

Fix(i) == SCM_MAKE_INT(i)

Big(i) == Scm_MakeBignumFromSI(i)

Rat(n, d) == [k |-> "Ratnum", numer |-> Scm_MakeInteger(n), denom |-> Scm_MakeInteger(d)]

Flo(d) == Scm_MakeFlonum(d)

Fixints ==
    {Fix(i) : i \in {SCM_SMALL_INT_MIN, -7, -2, -1, 0, 1, 2, 3, 6, SCM_SMALL_INT_MAX}}

Bignums ==
    {Big(i) : i \in {SCM_SMALL_INT_MAX + 1, 2 * (SCM_SMALL_INT_MAX + 1), SCM_SMALL_INT_MIN - 1,
                     LONG_MIN, LONG_MAX + 1, (3 * (LONG_MAX + 1)) \div 2, 2 * (LONG_MAX + 1)}}

Ratnums ==
    {Rat(1, 2), Rat(-1, 2), Rat(1, 3), Rat(2, 3), Rat(1, 6), Rat(3, 2), Rat(-7, 2),
     Rat(1, 2 * (SCM_SMALL_INT_MAX + 1)), Rat(2 * (SCM_SMALL_INT_MAX + 1) + 1, 2)}

\* the double nearest to (-1)^s * n * 2^e
Dbl(s, n, e) == round_to_double(s, n, 1, e)

Doubles ==
    {DZero(0), DZero(1), Dbl(0, 1, 0), Dbl(1, 1, 0), Dbl(0, 2, 0), Dbl(0, 1, -1),
     Dbl(0, 3, -1), DFin(0, 1, DblEMin), DFin(0, Pow2(DblPrec) - 1, DblEMax),
     Dbl(0, LONG_MAX, 0), DInf(0), DInf(1), DNaN}

Flonums == {Flo(d) : d \in Doubles}

Compnums ==
    {Scm_MakeCompnum(Dbl(0, 1, 0), Dbl(0, 1, 0)), Scm_MakeCompnum(DZero(0), Dbl(1, 1, 0)),
     Scm_MakeCompnum(Dbl(0, 3, -1), Dbl(0, 2, 0)),
     Scm_MakeCompnum(DNaN, Dbl(0, 1, 0)), Scm_MakeCompnum(DInf(0), DZero(1))}

Operands == Fixints \cup Bignums \cup Ratnums \cup Flonums \cup Compnums

\* the right operands given to a second operation
FeedOperands ==
    {Fix(0), Fix(1), Fix(2), Fix(-1), Big(SCM_SMALL_INT_MAX + 1), Rat(1, 2), Rat(1, 3),
     Flo(DZero(0)), Flo(Dbl(0, 1, 0)), Scm_MakeCompnum(Dbl(0, 1, 0), Dbl(0, 1, 0))}

LongInputs ==
    {LONG_MIN, SCM_SMALL_INT_MIN - 1, SCM_SMALL_INT_MIN, -1, 0, 1, SCM_SMALL_INT_MAX,
     SCM_SMALL_INT_MAX + 1, LONG_MAX}

Init ==
    /\ lhs \in Operands
    /\ rhs \in Operands
    /\ carg = 0
    /\ rempArg = FALSE
    /\ op = "none"
    /\ result = NoValue
    /\ rem = NoValue
    /\ chain = 0
    /\ prev = NoValue
    /\ third = NoValue
    /\ NoText
    /\ InitNumber
    /\ NoClamp
    /\ NoRound
    /\ NoThreads

DoAdd ==
    /\ op = "none"
    /\ op' = "Add"
    /\ result' = Scm_Add(lhs, rhs)
    /\ rem' = NoValue
    /\ UNCHANGED <<lhs, rhs, carg, rempArg, chain, prev, aux>>

DoSub ==
    /\ op = "none"
    /\ op' = "Sub"
    /\ result' = Scm_Sub(lhs, rhs)
    /\ rem' = NoValue
    /\ UNCHANGED <<lhs, rhs, carg, rempArg, chain, prev, aux>>

DoMul ==
    /\ op = "none"
    /\ op' = "Mul"
    /\ result' = Scm_Mul(lhs, rhs)
    /\ rem' = NoValue
    /\ UNCHANGED <<lhs, rhs, carg, rempArg, chain, prev, aux>>

DoDiv ==
    /\ op = "none"
    /\ op' = "Div"
    /\ result' = Scm_Div(lhs, rhs)
    /\ rem' = NoValue
    /\ UNCHANGED <<lhs, rhs, carg, rempArg, chain, prev, aux>>

DoDivInexact ==
    /\ op = "none"
    /\ op' = "DivInexact"
    /\ result' = Scm_DivInexact(lhs, rhs)
    /\ rem' = NoValue
    /\ UNCHANGED <<lhs, rhs, carg, rempArg, chain, prev, aux>>

DoDivCompat ==
    /\ op = "none"
    /\ op' = "DivCompat"
    /\ result' = Scm_DivCompat(lhs, rhs)
    /\ rem' = NoValue
    /\ UNCHANGED <<lhs, rhs, carg, rempArg, chain, prev, aux>>

DoQuotient ==
    /\ op = "none"
    /\ op' = "Quotient"
    /\ LET qr == Scm_Quotient(lhs, rhs)
       IN  IF IsError(qr) THEN result' = qr /\ rem' = NoValue
           ELSE result' = qr.q /\ rem' = qr.r
    /\ UNCHANGED <<lhs, rhs, carg, rempArg, chain, prev, aux>>

DoModulo ==
    /\ op = "none"
    /\ \E b \in BOOLEAN :
          /\ rempArg' = b
          /\ result' = Scm_Modulo(lhs, rhs, b)
    /\ op' = "Modulo"
    /\ rem' = NoValue
    /\ UNCHANGED <<lhs, rhs, carg, chain, prev, aux>>

DoGcd ==
    /\ op = "none"
    /\ op' = "Gcd"
    /\ result' = Scm_Gcd(lhs, rhs)
    /\ rem' = NoValue
    /\ UNCHANGED <<lhs, rhs, carg, rempArg, chain, prev, aux>>

DoNegate ==
    /\ op = "none"
    /\ op' = "Negate"
    /\ result' = Scm_Negate(lhs)
    /\ rem' = NoValue
    /\ UNCHANGED <<lhs, rhs, carg, rempArg, chain, prev, aux>>

DoAbs ==
    /\ op = "none"
    /\ op' = "Abs"
    /\ result' = Scm_Abs(lhs)
    /\ rem' = NoValue
    /\ UNCHANGED <<lhs, rhs, carg, rempArg, chain, prev, aux>>

DoReciprocal ==
    /\ op = "none"
    /\ op' = "Reciprocal"
    /\ result' = Scm_Reciprocal(lhs)
    /\ rem' = NoValue
    /\ UNCHANGED <<lhs, rhs, carg, rempArg, chain, prev, aux>>

DoMakeInteger ==
    /\ op = "none"
    /\ \E i \in LongInputs :
          /\ carg' = i
          /\ result' = Scm_MakeInteger(i)
    /\ op' = "MakeInteger"
    /\ rem' = NoValue
    /\ UNCHANGED <<lhs, rhs, rempArg, chain, prev, aux>>

DoMakeRational ==
    /\ op = "none"
    /\ op' = "MakeRational"
    /\ result' = Scm_MakeRational(lhs, rhs)
    /\ rem' = NoValue
    /\ UNCHANGED <<lhs, rhs, carg, rempArg, chain, prev, aux>>

DoReduceRational ==
    /\ op = "none"
    /\ op' = "ReduceRational"
    /\ result' = Scm_ReduceRational(lhs)
    /\ rem' = NoValue
    /\ UNCHANGED <<lhs, rhs, carg, rempArg, chain, prev, aux>>

DoMakeComplex ==
    /\ SCM_FLONUMP(lhs)
    /\ SCM_FLONUMP(rhs)
    /\ op = "none"
    /\ op' = "MakeComplex"
    /\ result' = Scm_MakeComplex(lhs.d, rhs.d)
    /\ rem' = NoValue
    /\ UNCHANGED <<lhs, rhs, carg, rempArg, chain, prev, aux>>

\* the value returned becomes the left operand of a further operation on a
\* fresh right operand
Feed ==
    /\ op # "none"
    /\ chain < MaxChain
    /\ SCM_NUMBERP(result)
    /\ lhs' = result
    /\ rhs' \in FeedOperands
    /\ prev' = NoValue
    /\ op' = "none"
    /\ result' = NoValue
    /\ rem' = NoValue
    /\ chain' = chain + 1
    /\ UNCHANGED <<carg, rempArg, aux>>

\* the value returned by an arithmetic operation becomes the left operand of
\* a further operation on the same right operand; prev keeps the left operand
\* the value was computed from
FeedBack ==
    /\ op \in {"Add", "Sub", "Mul", "Div"}
    /\ chain < MaxChain
    /\ SCM_NUMBERP(result)
    /\ lhs' = result
    /\ prev' = [op |-> op, lhs |-> lhs]
    /\ op' = "none"
    /\ result' = NoValue
    /\ rem' = NoValue
    /\ chain' = chain + 1
    /\ UNCHANGED <<rhs, carg, rempArg, aux>>

Next ==
    \/ DoAdd
    \/ DoSub
    \/ DoMul
    \/ DoDiv
    \/ DoDivInexact
    \/ DoDivCompat
    \/ DoQuotient
    \/ DoModulo
    \/ DoGcd
    \/ DoNegate
    \/ DoAbs
    \/ DoReciprocal
    \/ DoMakeInteger
    \/ DoMakeRational
    \/ DoReduceRational
    \/ DoMakeComplex
    \/ Feed
    \/ FeedBack

Spec == Init /\ [][Next]_vars

(***************************************************************************)
(* A caller that compares.  It holds three real numbers lhs, rhs and       *)
(* third, and either asks Scm_NumCmp for the order of the first two or,    *)
(* as the procedure = does with three arguments, asks Scm_NumEq about      *)
(* each pair.                                                              *)
(***************************************************************************)
\* the first integer above 2^DblPrec, which no double holds
DblOdd == Pow2(DblPrec) + 1

CmpFixints ==
    {Fix(i) : i \in {SCM_SMALL_INT_MIN, -DblOdd, -1, 0, 1, 2, Pow2(DblPrec), DblOdd,
                     DblOdd + 1, SCM_SMALL_INT_MAX}}

CmpBignums ==
    {Big(i) : i \in {SCM_SMALL_INT_MAX + 1, SCM_SMALL_INT_MAX + 2, SCM_SMALL_INT_MIN - 1,
                     LONG_MAX + 1}}

CmpRatnums ==
    {Rat(1, 2), Rat(-1, 2), Rat(1, 3), Rat(DblOdd, Pow2(DblPrec)), Rat(-DblOdd, Pow2(DblPrec)),
     Rat(2 * Pow2(DblPrec) + 1, 2), Rat(2 * (SCM_SMALL_INT_MAX + 1) + 1, 2),
     Rat(1, Pow2(DblDenorm + DblPrec))}

CmpDoubles ==
    {DZero(0), DZero(1), Dbl(0, 1, 0), Dbl(1, 1, 0), Dbl(0, 1, -1), round_to_double(0, 1, 3, 0),
     Dbl(0, Pow2(DblPrec), 0), Dbl(0, SCM_SMALL_INT_MAX + 1, 0), Dbl(0, LONG_MAX + 1, 0),
     DInf(0), DInf(1), DNaN}

CmpOperands == CmpFixints \cup CmpBignums \cup CmpRatnums \cup {Flo(d) : d \in CmpDoubles}

CmpInit ==
    /\ lhs \in CmpOperands
    /\ rhs \in CmpOperands
    /\ third \in CmpOperands
    /\ NoText
    /\ InitNumber
    /\ NoClamp
    /\ NoRound
    /\ NoThreads
    /\ carg = 0
    /\ rempArg = FALSE
    /\ op = "none"
    /\ result = NoValue
    /\ rem = NoValue
    /\ chain = 0
    /\ prev = NoValue

DoNumCmp ==
    /\ op = "none"
    /\ op' = "NumCmp"
    /\ result' = Scm_NumCmp(lhs, rhs)
    /\ UNCHANGED <<lhs, rhs, carg, rempArg, rem, chain, prev, aux>>

DoNumEq ==
    /\ op = "none"
    /\ op' = "NumEq"
    /\ result' = [k |-> "Eq3", ab |-> Scm_NumEq(lhs, rhs), bc |-> Scm_NumEq(rhs, third),
                  ac |-> Scm_NumEq(lhs, third)]
    /\ UNCHANGED <<lhs, rhs, carg, rempArg, rem, chain, prev, aux>>

CmpNext ==
    \/ DoNumCmp
    \/ DoNumEq

CmpSpec == CmpInit /\ [][CmpNext]_vars

(***************************************************************************)
(* A caller that converts.  It holds one number lhs and asks for its value *)
(* as a C double, as a long or as a u_long.                                *)
(***************************************************************************)
\* a C double handed back to the caller
CDouble(d) == [k |-> "Double", d |-> d]

ConvNumers ==
    {1, -1, 3, -3, 5, DblOdd, -DblOdd, 2 * Pow2(DblPrec) + 1, LONG_MAX, 2 * LONG_MAX + 1,
     Pow2(DblTop + DblPrec + 1) - 1}

ConvDenoms ==
    {2, 3, 5, Pow2(DblPrec), DblOdd, SCM_SMALL_INT_MAX, 2 * Pow2(DblPrec) + 1, LONG_MAX,
     LONG_MAX + 1, 2 * LONG_MAX + 1, Pow2(DblDenorm + 1) - 1, Pow2(DblDenorm + 2),
     Pow2(DblDenorm + 3) + 1}

ConvRatnums ==
    {Rat(p[1], p[2]) : p \in {q \in ConvNumers \X ConvDenoms : MathGcd(IAbs(q[1]), q[2]) = 1}}

\* numbers at and about the ends of the long and of the u_long
ClampOperands ==
    {Fix(-1), Fix(0), Fix(SCM_SMALL_INT_MAX)}
    \cup {Scm_MakeInteger(i) : i \in {LONG_MAX, LONG_MAX + 1, LONG_MIN, LONG_MIN - 1,
                                      2 * LONG_MAX + 1, 2 * LONG_MAX + 2}}
    \cup {Flo(Dbl(s, LONG_MAX + 1, 0)) : s \in {0, 1}}
    \cup {Flo(Dbl(s, Pow2(DblPrec) - 1, WordBits - 1 - DblPrec)) : s \in {0, 1}}
    \cup {Flo(Dbl(s, Pow2(DblPrec - 1) + 1, WordBits - DblPrec)) : s \in {0, 1}}
    \cup {Flo(Dbl(0, Pow2(DblPrec) - 1, WordBits - DblPrec)), Flo(Dbl(0, 2 * LONG_MAX + 2, 0)),
          Flo(Dbl(0, Pow2(DblPrec - 1) + 1, WordBits + 1 - DblPrec)),
          Flo(Dbl(0, 3, -1)), Flo(Dbl(1, 1, -1)), Flo(Dbl(1, 3, -1))}
    \cup {Rat(2 * LONG_MAX + 1, 2), Rat(LONG_MAX - 2, 2), Rat(4 * LONG_MAX + 3, 2),
          Rat(-(2 * LONG_MAX + 3), 2), Rat(-(2 * LONG_MAX + 5), 2), Rat(4 * LONG_MAX + 5, 2)}

ConvOperands == ConvRatnums \cup CmpOperands \cup ClampOperands

ConvInit ==
    /\ lhs \in ConvOperands
    /\ rhs = NoValue
    /\ third = NoValue
    /\ NoText
    /\ InitNumber
    /\ NoClamp
    /\ NoRound
    /\ NoThreads
    /\ carg = 0
    /\ rempArg = FALSE
    /\ op = "none"
    /\ result = NoValue
    /\ rem = NoValue
    /\ chain = 0
    /\ prev = NoValue

DoGetDouble ==
    /\ op = "none"
    /\ op' = "GetDouble"
    /\ result' = CDouble(Scm_GetDouble(lhs))
    /\ UNCHANGED <<lhs, rhs, carg, rempArg, rem, chain, prev, aux>>

ClampPolicies == {"ERROR", "HI", "LO", "BOTH", "NONE"}

\* what the caller gets for r: where the function returns an undefined
\* conversion, the value the conversion instruction of the build leaves
\* (the indefinite value, or the saturated one)
CastOutcomes(r) ==
    IF r.k # "CCast" THEN {r}
    ELSE IF r.unsigned
    THEN {CInt(n, FALSE) : n \in IF SCM_IS_NAN(r.d) THEN {0, LONG_MAX + 1} ELSE {0, ULONG_MAX}}
    ELSE {CInt(n, FALSE) : n \in IF SCM_IS_NAN(r.d) THEN {LONG_MIN, 0} ELSE {LONG_MIN, LONG_MAX}}

DoGetIntegerClamp ==
    /\ op = "none"
    /\ op' = "GetIntegerClamp"
    /\ \E c \in ClampPolicies, p \in BOOLEAN :
           /\ clampArg' = c
           /\ oorArg' = p
           /\ result' \in CastOutcomes(Scm_GetIntegerClamp(lhs, c, p))
    /\ UNCHANGED <<lhs, rhs, carg, rempArg, rem, chain, prev, third, text, radix, flags,
                   longlimit, mode, lazy>>

DoGetIntegerUClamp ==
    /\ op = "none"
    /\ op' = "GetIntegerUClamp"
    /\ \E c \in ClampPolicies, p \in BOOLEAN :
           /\ clampArg' = c
           /\ oorArg' = p
           /\ result' \in CastOutcomes(Scm_GetIntegerUClamp(lhs, c, p))
    /\ UNCHANGED <<lhs, rhs, carg, rempArg, rem, chain, prev, third, text, radix, flags,
                   longlimit, mode, lazy>>

ConvNext ==
    \/ DoGetDouble
    \/ DoGetIntegerClamp
    \/ DoGetIntegerUClamp

ConvSpec == ConvInit /\ [][ConvNext]_vars

(***************************************************************************)
(* Two callers of number I/O: one prints a number with Scm_NumberToString  *)
(* and reads the string back in the same radix with Scm_StringToNumber and *)
(* no flags; the other reads a literal.                                    *)
(***************************************************************************)
\* every double of the format
AllDoubles ==
    {DFin(s, m, e) : s \in {0, 1}, m \in Pow2(DblPrec - 1) .. Pow2(DblPrec) - 1,
                     e \in DblEMin .. DblEMax}
    \cup {DFin(s, m, DblEMin) : s \in {0, 1}, m \in 0 .. Pow2(DblPrec - 1) - 1}
    \cup {DInf(0), DInf(1), DNaN}

\* the radixes whose entry of longlimit[] Scm__InitNumber leaves defined
DefinedRadixes == {r \in Radixes : ULongOfDouble(LongLimitFloor(r)) = {LongLimitFloor(r)}}

\* exact integers within the long
WordIntegers ==
    {SCM_SMALL_INT_MIN, -18, -14, -10, -1, 0, 1, 9, 10, 14, 18, SCM_SMALL_INT_MAX,
     SCM_SMALL_INT_MAX + 1, SCM_SMALL_INT_MIN - 1, LONG_MAX, -LONG_MAX}

WideIntegers == {LONG_MAX + 1, -LONG_MAX - 1, 2 * LONG_MAX + 1, 1234, -1234, 12345}

IORatnums(ints) ==
    {Rat(p[1], p[2]) : p \in {q \in ints \X ints : q[2] > 1 /\ MathGcd(IAbs(q[1]), q[2]) = 1}}

WordExacts ==
    {Scm_MakeInteger(i) : i \in WordIntegers}
    \cup IORatnums({-18, -1, 1, 2, 18, 19, SCM_SMALL_INT_MAX + 1, LONG_MAX})

WideExacts ==
    {Scm_MakeInteger(i) : i \in WideIntegers} \cup IORatnums({-1234, 1, 10, LONG_MAX + 1, 1234})

\* what the printing caller passes: the number, the radix and the flags
PrintInputs ==
    ({Flo(d) : d \in AllDoubles} \X {10} \X {{}})
    \cup (WordExacts \X Radixes \X {{}, {"USE_UPPER"}})
    \cup (WideExacts \X DefinedRadixes \X {{}, {"USE_UPPER"}})

\* literals with an exponent at and about the limit MAX_EXPONENT
ExpMantissas == {<<"1">>, <<"0">>, <<"-", "1">>, <<"-", "0">>, <<"1", ".", "5">>, <<"0", ".", "0">>}

ExpSigns == {<<>>, <<"-">>, <<"+">>}

ExpMagnitudes == {MAX_EXPONENT - 1, MAX_EXPONENT, MAX_EXPONENT + 1, 10 * MAX_EXPONENT}

ExpLiteral(m, s, e) == m \o <<"e">> \o s \o sprintf_d(e)

ExponentLiterals == {ExpLiteral(m, s, e) : m \in ExpMantissas, s \in ExpSigns, e \in ExpMagnitudes}

\* literals in the syntax of complex numbers
ComplexLiterals ==
    {<<"+", "i">>, <<"-", "i">>, <<"1", "+", "i">>, <<"1", "-", "i">>, <<"1", "+", "2", "i">>,
     <<"1", "-", "2", "i">>, <<"+", "2", "i">>, <<"-", "2", "i">>, <<"1", "@", "0">>,
     <<"1", "@", "0", "p", "i">>, <<"1", ".", "5", "+", "I">>, <<"1", "/", "2", "-", "i">>,
     <<"1", "+", "0", "i">>, <<"+", "0", "i">>, <<"1", "e", "1", "+", "i">>}

RealLiterals ==
    {<<"1">>, <<"-", "1", "/", "2">>, <<"1", ".", "5">>, <<"+", "i", "n", "f", ".", "0">>,
     <<"1", "/", "0">>, <<"1", "#", ".", "#">>, <<".">>, <<>>}

Prefixes == {<<>>, <<"#", "e">>, <<"#", "i">>, <<"#", "d">>, <<"#", "e", "#", "d">>}

\* what the reading caller passes: the literal, the radix and the flags
ReadInputs ==
    {p \o l : p \in Prefixes, l \in ExponentLiterals \cup ComplexLiterals \cup RealLiterals}
        \X {10} \X {{}, {"EXACT"}, {"INEXACT"}}

IOInit ==
    /\ \/ /\ \E p \in PrintInputs : lhs = p[1] /\ radix = p[2] /\ flags = p[3]
          /\ text = <<>>
       \/ /\ \E p \in ReadInputs : text = p[1] /\ radix = p[2] /\ flags = p[3]
          /\ lhs = NoValue
    /\ rhs = NoValue
    /\ third = NoValue
    /\ InitNumber
    /\ NoClamp
    /\ NoRound
    /\ NoThreads
    /\ carg = 0
    /\ rempArg = FALSE
    /\ op = "none"
    /\ result = NoValue
    /\ rem = NoValue
    /\ chain = 0
    /\ prev = NoValue

DoNumberToString ==
    /\ op = "none"
    /\ lhs # NoValue
    /\ op' = "NumberToString"
    /\ LET s == Scm_NumberToString(lhs, radix, flags)
       IN  IF IsError(s) THEN result' = s /\ text' = text
           ELSE result' = result /\ text' = s.s
    /\ UNCHANGED <<lhs, rhs, carg, rempArg, rem, chain, prev, third, radix, flags, longlimit,
                   clampArg, oorArg, mode, lazy>>

DoReadBack ==
    /\ op = "NumberToString"
    /\ result = NoValue
    /\ op' = "ReadBack"
    /\ result' = Scm_StringToNumber(text, radix, {})
    /\ UNCHANGED <<lhs, rhs, carg, rempArg, rem, chain, prev, aux>>

DoStringToNumber ==
    /\ op = "none"
    /\ lhs = NoValue
    /\ op' = "StringToNumber"
    /\ result' = Scm_StringToNumber(text, radix, flags)
    /\ UNCHANGED <<lhs, rhs, carg, rempArg, rem, chain, prev, aux>>

IONext ==
    \/ DoNumberToString
    \/ DoReadBack
    \/ DoStringToNumber

IOSpec == IOInit /\ [][IONext]_vars

(***************************************************************************)
(* Threads that call the library at the same time.  A thread calls an      *)
(* operation that runs IEXPT10_INIT() and then reads the table             *)
(* (Scm_ExactIntegerExpt, print_double, algorithmR, read_real), or         *)
(* Scm_DefaultEndian / Scm_SetDefaultEndian, which run                     *)
(* init_default_endian() and then use the parameter.  Each action is one   *)
(* access to the shared statics.  No synchronisation orders the stores of  *)
(* iexpt10_init, so the store to iexpt10_initialized may become visible    *)
(* before the last store to the table; the unlocked test of                *)
(* init_default_endian may miss a store made under the mutex.              *)
(***************************************************************************)
ThreadInit ==
    /\ lhs = NoValue
    /\ rhs = NoValue
    /\ third = NoValue
    /\ NoText
    /\ InitNumber
    /\ NoClamp
    /\ NoRound
    /\ NoThreads
    /\ carg = 0
    /\ rempArg = FALSE
    /\ op = "none"
    /\ result = NoValue
    /\ rem = NoValue
    /\ chain = 0
    /\ prev = NoValue

numbers == <<lhs, rhs, carg, rempArg, op, result, rem, chain, prev, third, text, radix, flags,
             longlimit, clampArg, oorArg, mode>>

\* a thread enters an operation that uses the table of the powers of ten
CallIexpt10(t) ==
    /\ pc[t] = "idle"
    /\ pc' = [pc EXCEPT ![t] = "IEXPT10_INIT"]
    /\ UNCHANGED <<numbers, fill_i, iexpt10_tab, iexpt10_initialized, default_endian,
                   default_endian_mutex, stores, binds, late, unset>>

\* IEXPT10_INIT(): if (!iexpt10_initialized) iexpt10_init();
IEXPT10_INIT(t) ==
    /\ pc[t] = "IEXPT10_INIT"
    /\ pc' = [pc EXCEPT ![t] = IF iexpt10_initialized THEN "iexpt10" ELSE "iexpt10_init"]
    /\ fill_i' = [fill_i EXCEPT ![t] = 0]
    /\ UNCHANGED <<numbers, iexpt10_tab, iexpt10_initialized, default_endian,
                   default_endian_mutex, stores, binds, late, unset>>

\* the value iexpt10_init stores to the entry i
Iexpt10Entry(i) ==
    IF i = 0 THEN SCM_MAKE_INT(1) ELSE Scm_Mul(iexpt10_tab[i - 1], SCM_MAKE_INT(10))

\* iexpt10_init: one store to the table
iexpt10_init(t) ==
    /\ pc[t] \in {"iexpt10_init", "last_store"}
    /\ fill_i[t] < Iexpt10Entries
    /\ iexpt10_tab' = [iexpt10_tab EXCEPT ![fill_i[t]] = Iexpt10Entry(fill_i[t])]
    /\ stores' = [stores EXCEPT ![fill_i[t]] = @ + 1]
    /\ late' = (late \/ iexpt10_initialized)
    /\ fill_i' = [fill_i EXCEPT ![t] = @ + 1]
    /\ pc' = [pc EXCEPT ![t] = IF pc[t] = "last_store" THEN "iexpt10" ELSE "iexpt10_init"]
    /\ UNCHANGED <<numbers, iexpt10_initialized, default_endian, default_endian_mutex, binds,
                   unset>>

\* iexpt10_init: iexpt10_initialized = TRUE, after the stores to the table
iexpt10_init_done(t) ==
    /\ pc[t] = "iexpt10_init"
    /\ fill_i[t] = Iexpt10Entries
    /\ iexpt10_initialized' = TRUE
    /\ pc' = [pc EXCEPT ![t] = "iexpt10"]
    /\ UNCHANGED <<numbers, fill_i, iexpt10_tab, default_endian, default_endian_mutex, stores,
                   binds, late, unset>>

\* iexpt10_init: the store to iexpt10_initialized becomes visible before
\* the last store to the table
iexpt10_init_early(t) ==
    /\ pc[t] = "iexpt10_init"
    /\ fill_i[t] = Iexpt10Entries - 1
    /\ iexpt10_initialized' = TRUE
    /\ pc' = [pc EXCEPT ![t] = "last_store"]
    /\ UNCHANGED <<numbers, fill_i, iexpt10_tab, default_endian, default_endian_mutex, stores,
                   binds, late, unset>>

\* iexpt10(e): the thread reads an entry of the table and returns
iexpt10_read(t) ==
    /\ pc[t] = "iexpt10"
    /\ \E e \in 0 .. Iexpt10Entries - 1 : unset' = (unset \/ iexpt10_tab[e] = NULL)
    /\ pc' = [pc EXCEPT ![t] = "idle"]
    /\ UNCHANGED <<numbers, fill_i, iexpt10_tab, iexpt10_initialized, default_endian,
                   default_endian_mutex, stores, binds, late>>

\* a thread enters Scm_DefaultEndian or Scm_SetDefaultEndian
CallDefaultEndian(t) ==
    /\ pc[t] = "idle"
    /\ pc' = [pc EXCEPT ![t] = "init_default_endian"]
    /\ UNCHANGED <<numbers, fill_i, iexpt10_tab, iexpt10_initialized, default_endian,
                   default_endian_mutex, stores, binds, late, unset>>

\* init_default_endian: the first test, outside the mutex
init_default_endian(t) ==
    /\ pc[t] = "init_default_endian"
    /\ pc' = [pc EXCEPT ![t] = IF default_endian = NULL THEN "lock" ELSE "parameter"]
    /\ UNCHANGED <<numbers, fill_i, iexpt10_tab, iexpt10_initialized, default_endian,
                   default_endian_mutex, stores, binds, late, unset>>

\* init_default_endian: the first test does not see the store yet
init_default_endian_stale(t) ==
    /\ pc[t] = "init_default_endian"
    /\ default_endian # NULL
    /\ pc' = [pc EXCEPT ![t] = "lock"]
    /\ UNCHANGED <<numbers, fill_i, iexpt10_tab, iexpt10_initialized, default_endian,
                   default_endian_mutex, stores, binds, late, unset>>

\* SCM_INTERNAL_MUTEX_LOCK(default_endian_mutex)
endian_lock(t) ==
    /\ pc[t] = "lock"
    /\ default_endian_mutex = 0
    /\ default_endian_mutex' = t
    /\ pc' = [pc EXCEPT ![t] = "locked"]
    /\ UNCHANGED <<numbers, fill_i, iexpt10_tab, iexpt10_initialized, default_endian, stores,
                   binds, late, unset>>

\* init_default_endian: the second test and the binding, inside the mutex
endian_bind(t) ==
    /\ pc[t] = "locked"
    /\ IF default_endian = NULL
       THEN default_endian' = [k |-> "Parameter"] /\ binds' = binds + 1
       ELSE UNCHANGED <<default_endian, binds>>
    /\ pc' = [pc EXCEPT ![t] = "unlock"]
    /\ UNCHANGED <<numbers, fill_i, iexpt10_tab, iexpt10_initialized, default_endian_mutex,
                   stores, late, unset>>

\* SCM_INTERNAL_MUTEX_UNLOCK(default_endian_mutex)
endian_unlock(t) ==
    /\ pc[t] = "unlock"
    /\ default_endian_mutex' = 0
    /\ pc' = [pc EXCEPT ![t] = "parameter"]
    /\ UNCHANGED <<numbers, fill_i, iexpt10_tab, iexpt10_initialized, default_endian, stores,
                   binds, late, unset>>

\* Scm_PrimitiveParameterRef / Scm_PrimitiveParameterSet on default_endian
endian_parameter(t) ==
    /\ pc[t] = "parameter"
    /\ unset' = (unset \/ default_endian = NULL)
    /\ pc' = [pc EXCEPT ![t] = "idle"]
    /\ UNCHANGED <<numbers, fill_i, iexpt10_tab, iexpt10_initialized, default_endian,
                   default_endian_mutex, stores, binds, late>>

ThreadNext ==
    \/ \E t \in Threads : CallIexpt10(t)
    \/ \E t \in Threads : IEXPT10_INIT(t)
    \/ \E t \in Threads : iexpt10_init(t)
    \/ \E t \in Threads : iexpt10_init_done(t)
    \/ \E t \in Threads : iexpt10_init_early(t)
    \/ \E t \in Threads : iexpt10_read(t)
    \/ \E t \in Threads : CallDefaultEndian(t)
    \/ \E t \in Threads : init_default_endian(t)
    \/ \E t \in Threads : init_default_endian_stale(t)
    \/ \E t \in Threads : endian_lock(t)
    \/ \E t \in Threads : endian_bind(t)
    \/ \E t \in Threads : endian_unlock(t)
    \/ \E t \in Threads : endian_parameter(t)

ThreadSpec == ThreadInit /\ [][ThreadNext]_vars

(***************************************************************************)
(* A caller of the integer operations: rounding to an integer, the exact   *)
(* integer power, the arithmetic shift and the range predicates of the     *)
(* system integer types.                                                   *)
(***************************************************************************)
RoundModes == {"FLOOR", "CEIL", "TRUNC", "ROUND"}

\* quotients with halves, thirds, and fixnum and bignum numerators and denominators
RoundRatnums ==
    {Rat(s * n, 2) : s \in {-1, 1}, n \in {1, 3, 5, 7, SCM_SMALL_INT_MAX, 2 * SCM_SMALL_INT_MAX + 1,
                                           2 * SCM_SMALL_INT_MAX + 3, 2 * LONG_MAX + 1,
                                           2 * LONG_MAX + 3}}
    \cup {Rat(s * n, 3) : s \in {-1, 1}, n \in {1, 2, 4, 5, SCM_SMALL_INT_MAX + 1, LONG_MAX + 1}}
    \cup {Rat(s * n, 4) : s \in {-1, 1}, n \in {1, 3, 5, 7}}
    \cup {Rat(s * n, SCM_SMALL_INT_MAX + 1) :
              s \in {-1, 1}, n \in {1, (SCM_SMALL_INT_MAX + 1) \div 2 - 1,
                                    (SCM_SMALL_INT_MAX + 1) \div 2 + 1, SCM_SMALL_INT_MAX,
                                    SCM_SMALL_INT_MAX + 2, 3 * (SCM_SMALL_INT_MAX + 1) + 1}}
    \cup {Rat(SCM_SMALL_INT_MIN, SCM_SMALL_INT_MAX + 2), Rat(SCM_SMALL_INT_MIN, 3),
          Rat(LONG_MIN, 3), Rat(LONG_MIN + 1, 2)}

RoundOperands ==
    RoundRatnums \cup Fixints \cup Bignums
    \cup {Flo(Dbl(s, n, -1)) : s \in {0, 1}, n \in {0, 1, 3, 5}}

\* the bases of the exact integer power
ExptBases ==
    {Fix(i) : i \in {-10, -3, -2, -1, 0, 1, 2, 3, 10, SCM_SMALL_INT_MAX, SCM_SMALL_INT_MIN}}
    \cup {Big(LONG_MAX + 1), Big(SCM_SMALL_INT_MIN - 1)}
    \cup {Rat(1, 2), Rat(-1, 2), Rat(3, 2), Rat(-2, 3), Rat(-10, 3), Rat(1, 10)}

\* the exponents: fixnums, and bignums of either parity and sign
ExptExponents ==
    {Fix(i) : i \in -7 .. 7}
    \cup {Big(SCM_SMALL_INT_MAX + 1), Big(SCM_SMALL_INT_MAX + 2), Big(SCM_SMALL_INT_MIN - 1)}

\* the greatest |numerator| or denominator of a power the caller asks for
ExptCeiling == Pow2(3 * WordBits)

RECURSIVE IPow(_, _)
IPow(b, n) == IF n = 0 THEN 1 ELSE b * IPow(b, n - 1)

\* whether b^n <= c, for b >= 0 and c >= 1
RECURSIVE PowWithin(_, _, _)
PowWithin(b, n, c) ==
    IF n = 0 \/ b = 0 THEN TRUE ELSE IF b > c THEN FALSE ELSE PowWithin(b, n - 1, c \div b)

\* whether x^y stays below the ceiling, y a fixnum
ExptInRange(x, y) ==
    LET n == IF SCM_RATNUMP(x) THEN x.numer.v ELSE x.v
        d == IF SCM_RATNUMP(x) THEN x.denom.v ELSE 1
    IN  PowWithin(IAbs(n), IAbs(y.v), ExptCeiling) /\ PowWithin(d, IAbs(y.v), ExptCeiling)

\* shift counts on both sides of the word width, and at the ceiling
AshCounts == (-(2 * WordBits) .. WordBits + 2) \cup {AshLimit, AshLimit + 1}

IntOperands == RoundOperands \cup ExptBases

IntInit ==
    /\ lhs \in IntOperands
    /\ rhs = NoValue
    /\ third = NoValue
    /\ NoText
    /\ InitNumber
    /\ NoClamp
    /\ NoRound
    /\ NoThreads
    /\ carg = 0
    /\ rempArg = FALSE
    /\ op = "none"
    /\ result = NoValue
    /\ rem = NoValue
    /\ chain = 0
    /\ prev = NoValue

DoRound ==
    /\ op = "none"
    /\ op' = "Round"
    /\ \E m \in RoundModes :
           /\ mode' = m
           /\ result' = Scm_Round(lhs, m)
    /\ UNCHANGED <<lhs, rhs, carg, rempArg, rem, chain, prev, third, text, radix, flags,
                   longlimit, clampArg, oorArg, lazy>>

DoExactIntegerExpt ==
    /\ op = "none"
    /\ lhs \in ExptBases
    /\ op' = "ExactIntegerExpt"
    /\ \E y \in ExptExponents :
           /\ SCM_INTP(y) => ExptInRange(lhs, y)
           /\ rhs' = y
           /\ result' = Scm_ExactIntegerExpt(lhs, y)
    /\ UNCHANGED <<lhs, carg, rempArg, rem, chain, prev, aux>>

DoAsh ==
    /\ op = "none"
    /\ SCM_INTEGERP(lhs)
    /\ op' = "Ash"
    /\ \E cnt \in AshCounts :
           /\ carg' = cnt
           /\ result' = Scm_Ash(lhs, cnt)
    /\ UNCHANGED <<lhs, rhs, rempArg, rem, chain, prev, aux>>

IntNext ==
    \/ DoRound
    \/ DoAsh
    \/ DoExactIntegerExpt

IntSpec == IntInit /\ [][IntNext]_vars

(***************************************************************************)
(* A caller of the flonum codec: it decodes a double, encodes a triple, or *)
(* encodes the triple it has just decoded.                                 *)
(***************************************************************************)
Decoded(t) == [k |-> "Decoded", f |-> t.f, exp |-> t.exp, sign |-> t.sign]

\* mantissas around the two bounds, the markers, and operands that are no
\* mantissa at all
EncodeMantissas ==
    {Fix(i) : i \in {-1, 0, 1, DblHidden - 1, DblHidden, 2 * DblHidden - 1, 2 * DblHidden,
                     4 * DblHidden - 1}}
        \cup {Big(i) : i \in {SCM_SMALL_INT_MAX + 1, LONG_MAX + 1, 2 * (LONG_MAX + 1)}}
        \cup {SCM_TRUE, SCM_FALSE}

EncodeExponents ==
    {DblEMin - 2, DblEMin - 1, DblEMin, DblEMin + 1, 0, DblEMax, DblEMax + 1}

Triples ==
    {Decoded([f |-> f, exp |-> e, sign |-> sg]) :
        f \in EncodeMantissas, e \in EncodeExponents, sg \in {-1, 1}}

CodecInit ==
    /\ lhs \in {Flo(d) : d \in AllDoubles} \cup Triples
    /\ rhs = NoValue
    /\ third = NoValue
    /\ NoText
    /\ InitNumber
    /\ NoClamp
    /\ NoRound
    /\ NoThreads
    /\ carg = 0
    /\ rempArg = FALSE
    /\ op = "none"
    /\ result = NoValue
    /\ rem = NoValue
    /\ prev = NoValue
    /\ chain = 0

DoDecodeFlonum ==
    /\ op = "none"
    /\ SCM_FLONUMP(lhs)
    /\ op' = "DecodeFlonum"
    /\ result' = Decoded(Scm_DecodeFlonum(lhs.d))
    /\ UNCHANGED <<lhs, rhs, carg, rempArg, rem, chain, prev, aux>>

DoEncodeFlonum ==
    /\ op = "none"
    /\ lhs.k = "Decoded"
    /\ op' = "EncodeFlonum"
    /\ result' = Scm_EncodeFlonum(lhs.f, lhs.exp, lhs.sign)
    /\ UNCHANGED <<lhs, rhs, carg, rempArg, rem, chain, prev, aux>>

\* the triple just decoded is given to the encoder
DoEncodeDecoded ==
    /\ op = "DecodeFlonum"
    /\ op' = "EncodeDecoded"
    /\ rhs' = result
    /\ result' = Scm_EncodeFlonum(result.f, result.exp, result.sign)
    /\ UNCHANGED <<lhs, carg, rempArg, rem, chain, prev, aux>>

CodecNext ==
    \/ DoDecodeFlonum
    \/ DoEncodeFlonum
    \/ DoEncodeDecoded

CodecSpec == CodecInit /\ [][CodecNext]_vars

(***************************************************************************)
(* A caller that passes a number to the system interface: it asks whether  *)
(* the number fits a system type and converts it, or extracts an integer   *)
(* of a fixed width.                                                       *)
(***************************************************************************)
SysIntegers ==
    {Scm_MakeInteger(i) :
        i \in {0, 1, -1, SCM_SMALL_INT_MAX, SCM_SMALL_INT_MIN, SCM_SMALL_INT_MAX + 1,
               SCM_SMALL_INT_MIN - 1, LONG_MAX - 1, LONG_MAX, LONG_MAX + 1, LONG_MAX + 2,
               LONG_MIN + 2, LONG_MIN + 1, LONG_MIN, LONG_MIN - 1, 2 * LONG_MAX + 2,
               -Pow2(Int32Bits - 1), -Pow2(Int32Bits - 1) - 1, Pow2(Int32Bits - 1) - 1,
               Pow2(Int32Bits - 1), Pow2(Int32Bits) - 1, Pow2(Int32Bits)}}

SysInexacts ==
    {Flo(Dbl(s, n, e)) : s \in {0, 1},
                         n \in {0, 1, 3, Pow2(Int32Bits - 1) - 1, Pow2(Int32Bits - 1),
                                Pow2(Int32Bits) - 1, Pow2(Int32Bits)},
                         e \in {-1, 0}}
        \cup {Rat(1, 2), Rat(-1, 2), Rat(3, 2), Rat(-7, 2), Rat(Pow2(Int32Bits) - 1, 2),
              Rat(Pow2(Int32Bits) + 1, 2), Rat(-Pow2(Int32Bits) - 1, 2),
              Rat(2 * Pow2(Int32Bits) - 1, 2), Rat(2 * Pow2(Int32Bits) + 1, 2)}
        \cup {Flo(DInf(0)), Flo(DNaN), Flo(Dbl(0, 2 * LONG_MAX + 2, 0))}

SysTypes == {"Ssize", "Ptrdiff", "Offset"}

IntegerFits(ty, i) ==
    IF ty = "Ssize" THEN Scm_IntegerFitsSsizeP(i)
    ELSE IF ty = "Ptrdiff" THEN Scm_IntegerFitsPtrdiffP(i)
    ELSE Scm_IntegerFitsOffsetP(i)

IntegerTo(ty, i) ==
    IF ty = "Ssize" THEN Scm_IntegerToSsize(i)
    ELSE IF ty = "Ptrdiff" THEN Scm_IntegerToPtrdiff(i)
    ELSE Scm_IntegerToOffset(i)

SmallWidths == {"8", "U8", "16", "U16"}

SmallIntXtract(w, obj, clamp, oorp) ==
    IF w = "8" THEN Scm_GetInteger8Clamp(obj, clamp, oorp)
    ELSE IF w = "U8" THEN Scm_GetIntegerU8Clamp(obj, clamp, oorp)
    ELSE IF w = "16" THEN Scm_GetInteger16Clamp(obj, clamp, oorp)
    ELSE Scm_GetIntegerU16Clamp(obj, clamp, oorp)

SysInit ==
    /\ lhs \in SysIntegers \cup SysInexacts
    /\ rhs = NoValue
    /\ third = NoValue
    /\ NoText
    /\ InitNumber
    /\ NoClamp
    /\ NoRound
    /\ NoThreads
    /\ carg = 0
    /\ rempArg = FALSE
    /\ op = "none"
    /\ result = NoValue
    /\ rem = NoValue
    /\ chain = 0
    /\ prev = NoValue

\* the predicate Scm_IntegerFits<ty>P; text holds the name of the type
DoIntegerFits ==
    /\ op = "none"
    /\ op' = "IntegerFits"
    /\ \E ty \in SysTypes :
           /\ text' = <<ty>>
           /\ result' = CInt(IF IntegerFits(ty, lhs) THEN 1 ELSE 0, FALSE)
    /\ UNCHANGED <<lhs, rhs, carg, rempArg, rem, chain, prev, third, radix, flags, longlimit,
                   clampArg, oorArg, mode, lazy>>

\* the conversion Scm_IntegerTo<ty> of a number the predicate has accepted
DoIntegerTo ==
    /\ op = "IntegerFits"
    /\ result.v = 1
    /\ op' = "IntegerTo"
    /\ third' = IntegerTo(text[1], lhs)
    /\ UNCHANGED <<lhs, rhs, carg, rempArg, result, rem, chain, prev, text, radix, flags,
                   longlimit, clampArg, oorArg, mode, lazy>>

DoSmallIntXtract ==
    /\ op = "none"
    /\ \E w \in SmallWidths, c \in ClampPolicies, p \in BOOLEAN :
           /\ op' = "GetInteger" \o w \o "Clamp"
           /\ clampArg' = c
           /\ oorArg' = p
           /\ result' \in SmallIntXtract(w, lhs, c, p)
    /\ UNCHANGED <<lhs, rhs, carg, rempArg, rem, chain, prev, third, text, radix, flags,
                   longlimit, mode, lazy>>

DoGetInteger32Clamp ==
    /\ op = "none"
    /\ op' = "GetInteger32Clamp"
    /\ \E c \in ClampPolicies, p \in BOOLEAN :
           /\ clampArg' = c
           /\ oorArg' = p
           /\ result' = Scm_GetInteger32Clamp(lhs, c, p)
    /\ UNCHANGED <<lhs, rhs, carg, rempArg, rem, chain, prev, third, text, radix, flags,
                   longlimit, mode, lazy>>

DoGetIntegerU32Clamp ==
    /\ op = "none"
    /\ op' = "GetIntegerU32Clamp"
    /\ \E c \in ClampPolicies, p \in BOOLEAN :
           /\ clampArg' = c
           /\ oorArg' = p
           /\ result' = Scm_GetIntegerU32Clamp(lhs, c, p)
    /\ UNCHANGED <<lhs, rhs, carg, rempArg, rem, chain, prev, third, text, radix, flags,
                   longlimit, mode, lazy>>

SysNext ==
    \/ DoIntegerFits
    \/ DoIntegerTo
    \/ DoSmallIntXtract
    \/ DoGetInteger32Clamp
    \/ DoGetIntegerU32Clamp
    \/ DoGetIntegerClamp
    \/ DoGetIntegerUClamp

SysSpec == SysInit /\ [][SysNext]_vars

(***************************************************************************)
(* A reader of literals with '#' padding or underscores: it reads the      *)
(* literal, then the same literal written with plain digits.               *)
(***************************************************************************)
PadBodies ==
    {<<"1", "#">>, <<"1", "2", "#", "#">>, <<"-", "1", "#">>, <<"1", "#", "/", "2">>,
     <<"1", "/", "2", "#">>, <<"1", "#", "/", "2", "#">>, <<"1", ".", "5", "#">>,
     <<".", "5", "#">>, <<"0", "#">>,
     <<"-", "#">>, <<"1", "/", "#">>, <<".", "#">>, <<"1", "#", "1">>,
     <<"1", "/", "2", "#", "3">>, <<"1", ".", "5", "#", "5">>, <<"#", "/", "2">>}

UnderscoreBodies ==
    {<<"1", "_", "0">>, <<"1", "_", "2", "_", "3">>, <<"-", "1", "_", "0">>,
     <<"1", ".", "2", "_", "3">>, <<"1", "_", "0", ".", "5">>, <<"1", "_", "0", "/", "3">>,
     <<"1", "/", "2", "_", "0">>, <<"1", "_", "0", "/", "2", "_", "1">>,
     <<".", "2", "_", "5">>, <<"1", "2", "_", "3", "4">>}

PlainBodies == {<<"1", "0">>, <<"1", ".", "2", "3">>, <<"1", "0", "/", "3">>}

ReadPrefixes == {<<>>, <<"#", "e">>, <<"#", "i">>, <<"#", "d">>}

\* the length of the prefix of a literal of the reader
PrefixLen(t) == IF Len(t) >= 2 /\ t[1] = "#" /\ t[2] \in {"e", "i", "d"} THEN 2 ELSE 0

Body(t) == SubSeq(t, PrefixLen(t) + 1, Len(t))

HasPad(t) == \E i \in 1 .. Len(Body(t)) : Body(t)[i] = "#"

HasUnderscore(t) == \E i \in 1 .. Len(t) : t[i] = "_"

IsUnderscore(c) == c = "_"

NotUnderscore(c) == c # "_"

\* the literal with its underscores removed and its padding written as 0
PlainLiteral(t) ==
    SelectSeq([i \in 1 .. Len(t) |-> IF i > PrefixLen(t) /\ t[i] = "#" THEN "0" ELSE t[i]],
              NotUnderscore)

\* the flags under which the plain literal has the exactness of the padded one
PlainFlags(t, fl) ==
    IF HasPad(t) /\ ~(PrefixLen(t) > 0 /\ t[2] = "e") /\ "EXACT" \notin fl
    THEN fl \cup {"INEXACT"} ELSE fl

PadInputs ==
    {p \o b : p \in ReadPrefixes, b \in PadBodies \cup UnderscoreBodies \cup PlainBodies}
        \X {10} \X {{}, {"STRICT_R7RS"}}

PadInit ==
    /\ \E p \in PadInputs : text = p[1] /\ radix = p[2] /\ flags = p[3]
    /\ lhs = NoValue
    /\ rhs = NoValue
    /\ third = NoValue
    /\ InitNumber
    /\ NoClamp
    /\ NoRound
    /\ NoThreads
    /\ carg = 0
    /\ rempArg = FALSE
    /\ op = "none"
    /\ result = NoValue
    /\ rem = NoValue
    /\ chain = 0
    /\ prev = NoValue

DoReadPlain ==
    /\ op = "StringToNumber"
    /\ op' = "ReadPlain"
    /\ third' = Scm_StringToNumber(PlainLiteral(text), radix, PlainFlags(text, flags))
    /\ UNCHANGED <<lhs, rhs, carg, rempArg, result, rem, chain, prev, text, radix, flags,
                   longlimit, clampArg, oorArg, mode, lazy>>

PadNext ==
    \/ DoStringToNumber
    \/ DoReadPlain

PadSpec == PadInit /\ [][PadNext]_vars

(***************************************************************************)
(* Properties.  The values the numbers stand for and the canonical forms   *)
(* are written from the mathematics, not from the operations above.        *)
(***************************************************************************)
\* the exact integer i in its canonical representation
ExactInteger(i) ==
    IF SCM_SMALL_INT_FITS(i) THEN [k |-> "Fixint", v |-> i] ELSE [k |-> "Bignum", v |-> i]

CanonicalInt(x) ==
    \/ SCM_INTP(x) /\ SCM_SMALL_INT_FITS(x.v)
    \/ SCM_BIGNUMP(x) /\ ~SCM_SMALL_INT_FITS(x.v)

Canonical(x) ==
    CASE SCM_INTEGERP(x) -> CanonicalInt(x)
      [] SCM_RATNUMP(x) -> /\ CanonicalInt(x.numer)
                           /\ CanonicalInt(x.denom)
                           /\ x.denom.v > 1
                           /\ MathGcd(IAbs(x.numer.v), x.denom.v) = 1
      [] SCM_FLONUMP(x) -> TRUE
      [] SCM_COMPNUMP(x) -> ~DIsZero(x.imag)
      [] OTHER -> FALSE

CanonicalExact(x) == SCM_EXACTP(x) /\ Canonical(x)

NumOf(x) == IF SCM_RATNUMP(x) THEN x.numer.v ELSE x.v

DenOf(x) == IF SCM_RATNUMP(x) THEN x.denom.v ELSE 1

\* the canonical representation of the rational n/d, d # 0
CanonRat(n, d) ==
    LET g == MathGcd(IAbs(n), IAbs(d))
        nn == (ISign(d) * n) \div g
        dd == IAbs(d) \div g
    IN  IF dd = 1 THEN ExactInteger(nn)
        ELSE [k |-> "Ratnum", numer |-> ExactInteger(nn), denom |-> ExactInteger(dd)]

\* the canonical representation of x (+) y for exact x and y
ExactResult(o, x, y) ==
    CASE o = "Add" -> CanonRat(NumOf(x) * DenOf(y) + NumOf(y) * DenOf(x), DenOf(x) * DenOf(y))
      [] o = "Sub" -> CanonRat(NumOf(x) * DenOf(y) - NumOf(y) * DenOf(x), DenOf(x) * DenOf(y))
      [] o = "Mul" -> CanonRat(NumOf(x) * NumOf(y), DenOf(x) * DenOf(y))
      [] o = "Div" -> CanonRat(NumOf(x) * DenOf(y), DenOf(x) * NumOf(y))

Arith == {"Add", "Sub", "Mul", "Div"}

\* C1: Scm_Add, Scm_Sub, Scm_Mul and Scm_Div return an exact number when both
\* operands are exact and an inexact one (Flonum or Compnum) when an operand
\* is inexact, except that Scm_Mul with an exact zero operand returns exact 0.
TowerContagion ==
    (op \in Arith /\ SCM_NUMBERP(lhs) /\ SCM_NUMBERP(rhs)) =>
        IF SCM_EXACTP(lhs) /\ SCM_EXACTP(rhs)
        THEN SCM_EXACTP(result) \/ (op = "Div" /\ SCM_EXACT_ZERO_P(rhs) /\ IsError(result))
        ELSE IF op = "Mul" /\ (SCM_EXACT_ZERO_P(lhs) \/ SCM_EXACT_ZERO_P(rhs))
        THEN result = SCM_MAKE_INT(0)
        ELSE SCM_INEXACTP(result)

\* C2: for exact integers a and b # 0, Scm_Quotient returns q = trunc(a/b) and
\* a remainder r with a = q*b + r, |r| < |b| and r zero or of the sign of a.
TruncatedDivision ==
    (op = "Quotient" /\ CanonicalInt(lhs) /\ CanonicalInt(rhs) /\ rhs.v # 0) =>
        /\ SCM_INTEGERP(result)
        /\ SCM_INTEGERP(rem)
        /\ result.v = CDiv(lhs.v, rhs.v)
        /\ lhs.v = result.v * rhs.v + rem.v
        /\ IAbs(rem.v) < IAbs(rhs.v)
        /\ (rem.v = 0 \/ ISign(rem.v) = ISign(lhs.v))

\* C3: for exact integers a and b # 0, Scm_Modulo(a, b, FALSE) is
\* a - b*floor(a/b) and Scm_Modulo(a, b, TRUE) is a - b*trunc(a/b); with b an
\* exact or inexact zero the call signals an error.
ModuloRemainder ==
    (op = "Modulo" /\ CanonicalInt(lhs)) =>
        /\ (CanonicalInt(rhs) /\ rhs.v # 0) =>
               /\ SCM_INTEGERP(result)
               /\ result.v = IF rempArg THEN lhs.v - rhs.v * CDiv(lhs.v, rhs.v)
                             ELSE lhs.v - rhs.v * FloorDiv(lhs.v, rhs.v)
        /\ (SCM_EXACT_ZERO_P(rhs) \/ (SCM_FLONUMP(rhs) /\ DIsZero(rhs.d))) => IsError(result)

\* C4: for exact integers a and b, Scm_Gcd(a, b) is nonnegative, divides both,
\* is the greatest such divisor, and Scm_Gcd(a, 0) = Scm_Gcd(0, a) = |a|.
GcdProperties ==
    (op = "Gcd" /\ CanonicalInt(lhs) /\ CanonicalInt(rhs)) =>
        /\ SCM_INTEGERP(result)
        /\ result.v >= 0
        /\ result.v = MathGcd(IAbs(lhs.v), IAbs(rhs.v))

Constructing ==
    {"MakeInteger", "MakeRational", "ReduceRational", "MakeComplex", "Negate", "Abs",
     "Reciprocal", "Add", "Sub", "Mul", "Div"}

\* C5: every number returned by Scm_MakeInteger, Scm_MakeRational,
\* Scm_ReduceRational, Scm_MakeComplex, Scm_Negate, Scm_Abs, Scm_Reciprocal,
\* Scm_Add, Scm_Sub, Scm_Mul and Scm_Div on canonical numbers is canonical: a
\* Ratnum has denominator > 1 and is in lowest terms, an integer in the fixnum
\* range is a Fixint, a Compnum has a nonzero imaginary part.
CanonicalForm ==
    (op \in Constructing /\ Canonical(lhs) /\ Canonical(rhs) /\ SCM_NUMBERP(result)) =>
        Canonical(result)

\* C6: Scm_Add, Scm_Sub, Scm_Mul, Scm_Negate and Scm_Abs on Fixints return the
\* mathematical result, a Fixint when it lies in the fixnum range and a Bignum
\* otherwise.
FixintExact ==
    /\ (op \in {"Add", "Sub", "Mul"} /\ CanonicalInt(lhs) /\ SCM_INTP(lhs)
            /\ CanonicalInt(rhs) /\ SCM_INTP(rhs)) =>
           result = ExactInteger(CASE op = "Add" -> lhs.v + rhs.v
                                   [] op = "Sub" -> lhs.v - rhs.v
                                   [] op = "Mul" -> lhs.v * rhs.v)
    /\ (op = "Negate" /\ CanonicalInt(lhs) /\ SCM_INTP(lhs)) => result = ExactInteger(-lhs.v)
    /\ (op = "Abs" /\ CanonicalInt(lhs) /\ SCM_INTP(lhs)) => result = ExactInteger(IAbs(lhs.v))

FixintExactWitness ==
    /\ op = "Mul"
    /\ lhs = SCM_MAKE_INT(SCM_SMALL_INT_MIN)
    /\ rhs = SCM_MAKE_INT(SCM_SMALL_INT_MIN)
    /\ SCM_BIGNUMP(result)
    /\ result.v = SCM_SMALL_INT_MIN * SCM_SMALL_INT_MIN
    /\ ~InLong(result.v)

\* C7: for exact rationals x and y in canonical form, Scm_Add, Scm_Sub, Scm_Mul
\* and Scm_Div (y # 0) return the canonical representation of x+y, x-y, x*y
\* and x/y; hence (a/b)*b = a for b # 0.
RationalExact ==
    /\ (op \in Arith /\ CanonicalExact(lhs) /\ CanonicalExact(rhs)
            /\ ~(op = "Div" /\ SCM_EXACT_ZERO_P(rhs))) =>
           result = ExactResult(op, lhs, rhs)
    /\ (op = "Mul" /\ prev # NoValue /\ prev.op = "Div" /\ CanonicalExact(prev.lhs)
            /\ CanonicalExact(rhs) /\ ~SCM_EXACT_ZERO_P(rhs)) =>
           result = prev.lhs

\* C8: Scm_Div(x, y) with y the exact integer 0 signals an error for every
\* numeric dividend x.
DivByExactZero ==
    (op = "Div" /\ SCM_NUMBERP(lhs) /\ SCM_EXACT_ZERO_P(rhs)) => IsError(result)

\* C8 as the code has it: Scm_Div(x, exact 0) signals an error for every exact
\* dividend x; a Flonum or Compnum dividend gives an inexact result made of
\* infinities and NaN, and no error.
DivByExactZeroExactDividend ==
    (op = "Div" /\ SCM_NUMBERP(lhs) /\ SCM_EXACT_ZERO_P(rhs)) =>
        IF SCM_EXACTP(lhs) THEN IsError(result)
        ELSE IF SCM_FLONUMP(lhs)
        THEN result \in {SCM_NAN, SCM_POSITIVE_INFINITY, SCM_NEGATIVE_INFINITY}
        ELSE /\ SCM_INEXACTP(result)
             /\ IF SCM_COMPNUMP(result)
                THEN ~DIsFin(result.real) /\ ~DIsFin(result.imag)
                ELSE ~DIsFin(result.d)

DivByExactZeroWitness ==
    /\ op = "Div"
    /\ SCM_FLONUMP(lhs)
    /\ DIsFin(lhs.d)
    /\ ~DIsZero(lhs.d)
    /\ signbit(lhs.d)
    /\ SCM_EXACT_ZERO_P(rhs)
    /\ result = SCM_NEGATIVE_INFINITY

\* C9: for exact x and y # 0, Scm_DivCompat(x, y) returns the exact integer
\* x/y when x/y is whole and a Flonum otherwise, never a Ratnum.
CompatDivision ==
    (op = "DivCompat" /\ CanonicalExact(lhs) /\ CanonicalExact(rhs)
         /\ ~SCM_EXACT_ZERO_P(rhs)) =>
        IF SCM_INTEGERP(ExactResult("Div", lhs, rhs))
        THEN result = ExactResult("Div", lhs, rhs)
        ELSE SCM_FLONUMP(result)

\* C10: Scm_DivInexact(x, y) returns a Flonum or a Compnum for all numbers x
\* and y: never an exact number, never a division-by-zero error.
InexactDivision ==
    (op = "DivInexact" /\ SCM_NUMBERP(lhs) /\ SCM_NUMBERP(rhs)) => SCM_INEXACTP(result)

InexactDivisionWitness ==
    /\ op = "DivInexact"
    /\ SCM_EXACTP(lhs)
    /\ Scm_Sign(lhs) < 0
    /\ SCM_EXACT_ZERO_P(rhs)
    /\ result = SCM_NEGATIVE_INFINITY

(***************************************************************************)
(* Properties of comparison.                                               *)
(***************************************************************************)
NonNaN(x) == SCM_FLONUMP(x) => ~SCM_IS_NAN(x.d)

FiniteReal(x) == SCM_FLONUMP(x) => x.d.c = "fin"

\* the value of a finite real x is ValNum(x) / ValDen(x), ValDen(x) > 0
ValNum(x) == IF SCM_FLONUMP(x) THEN DUnits(x.d) ELSE NumOf(x)

ValDen(x) == IF SCM_FLONUMP(x) THEN DIntUnits ELSE DenOf(x)

\* the sign of x - y for finite reals x and y
SignOfDifference(x, y) == ISign(ValNum(x) * ValDen(y) - ValNum(y) * ValDen(x))

\* C11: Scm_NumEq is transitive over Fixint, Bignum, Ratnum and non-NaN
\* Flonum operands; an exact integer that no double holds is never equal to
\* a Flonum, and Scm_NumCmp(2^DblPrec + 1, 2.0^DblPrec) is +1.
NumEqTransitive ==
    /\ (op = "NumEq" /\ NonNaN(lhs) /\ NonNaN(rhs) /\ NonNaN(third)) =>
           ((result.ab /\ result.bc) => result.ac)
    /\ (op = "NumEq" /\ SCM_INTEGERP(lhs) /\ SCM_FLONUMP(rhs) /\ FiniteReal(rhs)
          /\ SignOfDifference(lhs, rhs) # 0) => ~result.ab
    /\ (op = "NumEq" /\ SCM_FLONUMP(lhs) /\ FiniteReal(lhs) /\ SCM_INTEGERP(rhs)
          /\ SignOfDifference(lhs, rhs) # 0) => ~result.ab
    /\ (op = "NumCmp" /\ SCM_INTEGERP(lhs) /\ lhs.v = DblOdd /\ SCM_FLONUMP(rhs)
          /\ FiniteReal(rhs) /\ DUnits(rhs.d) = Pow2(DblPrec) * DIntUnits) => result = Cmp(1)

\* 2^DblPrec + 1, the double 2.0^DblPrec it rounds to and the integer
\* 2^DblPrec have been compared: the first two differ, the last two are equal
NumEqTransitiveWitness ==
    /\ op = "NumEq"
    /\ SCM_INTEGERP(lhs) /\ lhs.v = DblOdd
    /\ SCM_FLONUMP(rhs) /\ FiniteReal(rhs) /\ DUnits(rhs.d) = Pow2(DblPrec) * DIntUnits
    /\ SCM_INTEGERP(third) /\ third.v = Pow2(DblPrec)
    /\ ~result.ab
    /\ result.bc
    /\ ~result.ac

IsNaNFlonum(x) == SCM_FLONUMP(x) /\ SCM_IS_NAN(x.d)

\* C12: Scm_NumCmp of two reals (Fixint, Bignum, Ratnum, Flonum with NaN and
\* the infinities) returns -1, 0 or 1 and signals no error, and returns 0
\* when an argument is NaN.
NumCmpTotal ==
    (op = "NumCmp" /\ SCM_REALP(lhs) /\ SCM_REALP(rhs)) =>
        /\ result \in {Cmp(-1), Cmp(0), Cmp(1)}
        /\ (IsNaNFlonum(lhs) \/ IsNaNFlonum(rhs)) => result = Cmp(0)

(***************************************************************************)
(* Properties of conversion.                                               *)
(***************************************************************************)
\* the finite doubles: the normal ones and those of the least exponent
FiniteDoubles ==
    {[c |-> "fin", s |-> s, m |-> m, e |-> e] :
        s \in {0, 1}, m \in Pow2(DblPrec - 1) .. Pow2(DblPrec) - 1, e \in DblEMin .. DblEMax}
    \cup {[c |-> "fin", s |-> s, m |-> m, e |-> DblEMin] :
        s \in {0, 1}, m \in 0 .. Pow2(DblPrec - 1) - 1}

\* the distance of n/d, d > 0, to the finite double f, in units of 1/(d * DIntUnits)
DistanceTo(n, d, f) == IAbs(n * DIntUnits - DUnits(f) * d)

\* the finite doubles of magnitude at most twice that of n/d, d > 0, and one
\* unit more: the nearest double of n/d is among them
DoublesNear(n, d) ==
    {f \in FiniteDoubles : IAbs(DUnits(f)) <= 2 * ((IAbs(n) * DIntUnits) \div d) + 2}

\* r is n/d, d > 0, rounded to the nearest double, ties to the even mantissa
CorrectlyRounded(n, d, r) ==
    LET big == 2 * IAbs(n) >= d * (Pow2(DblPrec + 1) - 1) * Pow2(DblEMax)
    IN  /\ r.c # "nan"
        /\ (r.c = "fin" /\ r.m = 0) \/ r.s = (IF n < 0 THEN 1 ELSE 0)
        /\ r.c = "inf" <=> big
        /\ r.c = "fin" =>
               /\ r \in DoublesNear(n, d)
               /\ \A f \in DoublesNear(n, d) :
                      /\ DistanceTo(n, d, r) <= DistanceTo(n, d, f)
                      /\ (DistanceTo(n, d, r) = DistanceTo(n, d, f) /\ DUnits(f) # DUnits(r))
                             => r.m % 2 = 0

\* C13: for a canonical Ratnum n/d, Scm_GetDouble returns the double nearest
\* to n/d, ties to the even mantissa.
RatnumToDoubleRounded ==
    (op = "GetDouble" /\ SCM_RATNUMP(lhs) /\ Canonical(lhs)) =>
        CorrectlyRounded(lhs.numer.v, lhs.denom.v, result.d)


\* C20: Scm_NumCmp of a Fixint and a canonical Ratnum, in either order, is the
\* sign of their exact difference.
NumCmpFixintRatnumExact ==
    (op = "NumCmp" /\ ((SCM_INTP(lhs) /\ SCM_RATNUMP(rhs)) \/ (SCM_RATNUMP(lhs) /\ SCM_INTP(rhs))))
        => result = Cmp(SignOfDifference(lhs, rhs))

\* C14: a double that is not NaN, printed in radix 10 with the defaults and
\* read back, is the same double, the sign of zero included.
FlonumPrintParse ==
    (op = "ReadBack" /\ SCM_FLONUMP(lhs) /\ ~SCM_IS_NAN(lhs.d)) => result = lhs

\* the positions of the character ch in buf
Places(buf, ch) == {i \in 1 .. Len(buf) : buf[i] = ch}

\* C15: an exact integer or a canonical Ratnum, printed in a radix and read
\* back in that radix, is the same number of the same kind, with or without
\* the upper-case flag; a Ratnum prints with one '/' and no sign after it.
ExactPrintParse ==
    (op = "ReadBack" /\ (SCM_INTEGERP(lhs) \/ SCM_RATNUMP(lhs))) =>
        /\ result = lhs
        /\ SCM_RATNUMP(lhs) =>
               /\ Cardinality(Places(text, "/")) = 1
               /\ \A i \in Places(text, "/") : \A j \in Places(text, "-") : j < i

\* the context in which a literal with the prefix p is read under the flags fl
\* is EXACT: the prefix #e, or the flag EXACT with no prefix #i
ExactContext(p, fl) ==
    IF \E i \in 1 .. Len(p) : p[i] = "e" THEN TRUE
    ELSE IF \E i \in 1 .. Len(p) : p[i] = "i" THEN FALSE
    ELSE "EXACT" \in fl

\* the digits of the mantissa m are all zero
ZeroDigits(m) == \A i \in 1 .. Len(m) : m[i] \in {"-", "+", ".", "0"}

\* what the claim gives for the mantissa m and the exponent sign s out of the
\* EXACT context
Saturated(m, s) ==
    Scm_MakeFlonum(IF s = <<"-">> \/ ZeroDigits(m) THEN DZero(IF m[1] = "-" THEN 1 ELSE 0)
                   ELSE DInf(IF m[1] = "-" THEN 1 ELSE 0))

Rejected(v) == SCM_FALSEP(v) \/ IsError(v)

\* C17: in the EXACT context every literal in the syntax of complex numbers
\* is rejected, and Scm_StringToNumber never returns a complex number.
NoExactComplex ==
    op = "StringToNumber" =>
        \A p \in Prefixes :
            ExactContext(p, flags) =>
                /\ \A l \in ComplexLiterals : text = p \o l => Rejected(result)
                /\ \A l \in ExponentLiterals \cup RealLiterals :
                       text = p \o l => result.k \notin {"Compnum", "Polar"}

\* the exact value of a real number that is not the NaN, as <<n, d>> with
\* d > 0; an infinity is a value beyond every u_long
ValueOf(x) ==
    IF SCM_INTEGERP(x) THEN <<x.v, 1>>
    ELSE IF SCM_RATNUMP(x) THEN <<x.numer.v, x.denom.v>>
    ELSE IF SCM_IS_INF(x.d) THEN <<(IF x.d.s = 1 THEN -4 ELSE 4) * Pow2(WordBits), 1>>
    ELSE <<DUnits(x.d), DIntUnits>>

\* what the claim asks of the result r for the value q and the range lo..hi;
\* a value out of the range whose truncation is in it may be met either way
ClampedTo(q, lo, hi, clamp, oorp, r) ==
    LET t        == CDiv(q[1], q[2])
        inrange  == lo * q[2] <= q[1] /\ q[1] <= hi * q[2]
        refused  == IF clamp = "ERROR" \/ ~oorp THEN IsError(r) ELSE r = CInt(0, TRUE)
    IN  IF inrange THEN r = CInt(t, FALSE)
        ELSE \/ lo <= t /\ t <= hi /\ r = CInt(t, FALSE)
             \/ /\ q[1] > hi * q[2]
                /\ IF ClampHi(clamp) THEN r = CInt(hi, FALSE) ELSE refused
             \/ /\ q[1] < lo * q[2]
                /\ IF ClampLo(clamp) THEN r = CInt(lo, FALSE) ELSE refused

\* lhs is a real number with a value
ClampArgument == SCM_REALP(lhs) /\ ~(SCM_FLONUMP(lhs) /\ SCM_IS_NAN(lhs.d))

\* C18: Scm_GetIntegerClamp and Scm_GetIntegerUClamp return an argument in
\* the range truncated toward zero, the bound for one beyond it that the
\* policy covers, and otherwise raise (policy ERROR, or no flag pointer) or
\* set the flag and return 0.
ClampPolicy ==
    /\ (op = "GetIntegerClamp" /\ ClampArgument) =>
           ClampedTo(ValueOf(lhs), LONG_MIN, LONG_MAX, clampArg, oorArg, result)
    /\ (op = "GetIntegerUClamp" /\ ClampArgument) =>
           ClampedTo(ValueOf(lhs), 0, ULONG_MAX, clampArg, oorArg, result)

\* the threads inside iexpt10_init
Initialisers == {t \in Threads : pc[t] \in {"iexpt10_init", "last_store"}}

\* C19: each lazily initialised static is initialised once, by one thread at
\* a time; no entry of the table is stored after iexpt10_initialized is
\* set, and no thread uses an entry or the parameter while it is NULL.
OneShotInit ==
    /\ Cardinality(Initialisers) <= 1
    /\ \A i \in 0 .. Iexpt10Entries - 1 : stores[i] <= 1
    /\ binds <= 1
    /\ ~late
    /\ ~unset


\* the sign of the real x, from its value; both zeros have the sign 0
RealSign(x) ==
    IF SCM_FLONUMP(x) THEN (IF x.d.c = "fin" /\ x.d.m = 0 THEN 0 ELSE IF x.d.s = 1 THEN -1 ELSE 1)
    ELSE ISign(NumOf(x))

Divisions == {"Div", "DivInexact", "DivCompat"}

\* C21: for every real dividend x (Fixint, Bignum, Ratnum, non-NaN Flonum)
\* and the divisor +0.0 or -0.0, Scm_Div, Scm_DivInexact and Scm_DivCompat
\* return NaN when x is zero and otherwise the infinity whose sign is the
\* sign of x times the sign bit of the divisor; no error is signalled.
InexactZeroDivisor ==
    (op \in Divisions /\ SCM_REALP(lhs) /\ NonNaN(lhs) /\ SCM_FLONUMP(rhs)
         /\ rhs.d.c = "fin" /\ rhs.d.m = 0) =>
        result = IF RealSign(lhs) = 0 THEN SCM_NAN
                 ELSE IF RealSign(lhs) * (IF rhs.d.s = 1 THEN -1 ELSE 1) < 0
                 THEN SCM_NEGATIVE_INFINITY
                 ELSE SCM_POSITIVE_INFINITY

InexactZeroDivisorWitness ==
    /\ op = "DivCompat"
    /\ SCM_RATNUMP(lhs)
    /\ NumOf(lhs) < 0
    /\ rhs = Scm_MakeFlonum(DZero(1))
    /\ result = SCM_POSITIVE_INFINITY


\* the integer nearest to n/d, d > 0, halves going to the even integer
NearestEven(n, d) ==
    LET q == FloorDiv(n, d)
        r == n - q * d
    IN  IF 2 * r < d THEN q
        ELSE IF 2 * r > d THEN q + 1
        ELSE IF q % 2 = 0 THEN q ELSE q + 1

\* floor, ceiling, truncation and nearest-even of n/d, d > 0
Rounded(mode_, n, d) ==
    IF mode_ = "FLOOR" THEN FloorDiv(n, d)
    ELSE IF mode_ = "CEIL" THEN -FloorDiv(-n, d)
    ELSE IF mode_ = "TRUNC" THEN ISign(n) * (IAbs(n) \div d)
    ELSE NearestEven(n, d)

\* C22: for every canonical Ratnum x, Scm_Round(x, mode) is floor(x),
\* ceil(x), trunc(x) or the nearest integer with halves rounded to even, as
\* an exact integer, for either sign of x; an exact integer is returned
\* unchanged.
RoundRatnum ==
    /\ (op = "Round" /\ SCM_RATNUMP(lhs) /\ Canonical(lhs)) =>
           result = ExactInteger(Rounded(mode, NumOf(lhs), DenOf(lhs)))
    /\ (op = "Round" /\ SCM_INTEGERP(lhs)) => result = lhs

RoundRatnumWitness ==
    /\ op = "Round"
    /\ mode = "ROUND"
    /\ SCM_RATNUMP(lhs)
    /\ NumOf(lhs) < 0
    /\ 2 * (NumOf(lhs) % DenOf(lhs)) = DenOf(lhs)
    /\ SCM_BIGNUMP(lhs.numer)
    /\ result = ExactInteger(NearestEven(NumOf(lhs), DenOf(lhs)))


\* x^y for the exact x = n/d and the integer y, as a canonical exact number;
\* x # 0 when y < 0
ExactPower(n, d, y) ==
    IF y >= 0 THEN CanonRat(IPow(n, y), IPow(d, y))
    ELSE CanonRat(IPow(d, -y), IPow(n, -y))

ShiftFloor(x, n) == IF n >= 0 THEN x * Pow2(n) ELSE FloorDiv(x, Pow2(-n))

\* C24: for every exact integer x and every shift count n below the ceiling
\* 2^28, Scm_Ash(x, n) is floor(x * 2^n) in its canonical representation (a
\* Bignum exactly when the value leaves the Fixint range), and once -n is at
\* least the word width it is -1 for negative x and 0 for nonnegative x; for
\* n >= 2^28 the call signals an error.
ArithmeticShift ==
    op = "Ash" =>
        IF carg >= AshLimit THEN IsError(result)
        ELSE /\ result = ExactInteger(ShiftFloor(lhs.v, carg))
             /\ -carg >= WordBits => result = ExactInteger(IF lhs.v < 0 THEN -1 ELSE 0)

\* C24 as the code has it: the result is floor(x * 2^n) for every exact
\* integer x, which is -1 or 0 after a shift right by the word width or more
\* when x is in the range of a long; a wider Bignum keeps its high bits.
ArithmeticShiftWord ==
    op = "Ash" =>
        IF carg >= AshLimit THEN IsError(result)
        ELSE /\ result = ExactInteger(ShiftFloor(lhs.v, carg))
             /\ (-carg >= WordBits /\ InLong(lhs.v)) =>
                    result = ExactInteger(IF lhs.v < 0 THEN -1 ELSE 0)

ArithmeticShiftWitness ==
    /\ op = "Ash"
    /\ SCM_BIGNUMP(lhs)
    /\ lhs.v = 2 * (LONG_MAX + 1)
    /\ carg = -WordBits
    /\ result = ExactInteger(1)


\* the triple the decomposition table gives for the double d
DecodeTable(d) ==
    LET sign == IF d.s = 1 THEN -1 ELSE 1
    IN  IF d.c = "nan" THEN Decoded([f |-> SCM_FALSE, exp |-> 0, sign |-> sign])
        ELSE IF d.c = "inf" THEN Decoded([f |-> SCM_TRUE, exp |-> 0, sign |-> sign])
        ELSE IF d.m = 0 THEN Decoded([f |-> Fix(0), exp |-> 0, sign |-> sign])
        ELSE IF d.m >= Pow2(DblPrec - 1)
        THEN Decoded([f |-> ExactInteger(d.m), exp |-> d.e, sign |-> sign])
        ELSE Decoded([f |-> ExactInteger(d.m), exp |-> -DblDenorm, sign |-> sign])

\* C25: Scm_DecodeFlonum follows the decomposition table for every double: a
\* NaN gives the NaN marker with e = 0, an infinity the infinity marker with
\* e = 0 and the sign, a zero f = 0 with e = 0, a normal value its mantissa
\* with the hidden bit and the unbiased exponent less the mantissa width, a
\* denormal its mantissa and the least exponent; the sign is -1 exactly when
\* the sign bit is set.
DecodeFollowsTable ==
    op = "DecodeFlonum" => result = DecodeTable(lhs.d)

\* C25 without the zeros: every double that is not a zero is decoded as the
\* table says.
DecodeFollowsTableNonzero ==
    (op = "DecodeFlonum" /\ ~DIsZero(lhs.d)) => result = DecodeTable(lhs.d)

\* the value (-1)^s * f * 2^e as a double, for f within the mantissa
EncodedValue(f, e, sbit) ==
    IF f < Pow2(DblPrec - 1) THEN DFin(sbit, f, -DblDenorm) ELSE DFin(sbit, f, e)

RECURSIVE PadRuns(_, _, _)
PadRuns(b, i, st) ==
    IF i > Len(b) THEN TRUE
    ELSE IF b[i] = "_" THEN PadRuns(b, i + 1, st)
    ELSE IF b[i] = "#" THEN (IF st = "start" THEN FALSE ELSE PadRuns(b, i + 1, "pads"))
    ELSE IF isdigit(b[i]) THEN (IF st = "pads" THEN FALSE ELSE PadRuns(b, i + 1, "digits"))
    ELSE PadRuns(b, i + 1, "start")

\* C27: a literal with '#' in a digit run is read as the literal with 0 in
\* the place of each '#', inexact unless the literal is stated exact, when
\* each '#' follows a digit or a '#' of its own digit run and no digit follows
\* it in that run; otherwise the literal is not accepted.
PadReadsAsZero ==
    (op = "ReadPlain" /\ HasPad(text) /\ ~HasUnderscore(text)) =>
        IF PadRuns(Body(text), 1, "start") THEN result = third /\ SCM_NUMBERP(result)
        ELSE SCM_FALSEP(result)

\* C27 for a literal of one digit run
PadReadsAsZeroOneRun ==
    (op = "ReadPlain" /\ HasPad(text) /\ ~HasUnderscore(text)
        /\ \A i \in 1 .. Len(text) : text[i] # "/") =>
        IF PadRuns(Body(text), 1, "start") THEN result = third /\ SCM_NUMBERP(result)
        ELSE SCM_FALSEP(result)

\* C28: a literal with underscores in its digit runs is read as the literal
\* without them when it has an explicit prefix and the strict mode is off, and
\* is rejected otherwise.
UnderscoresSkipped ==
    (op = "ReadPlain" /\ HasUnderscore(text) /\ ~HasPad(text)) =>
        IF PrefixLen(text) > 0 /\ "STRICT_R7RS" \notin flags
        THEN result = third /\ SCM_NUMBERP(result)
        ELSE SCM_FALSEP(result)

\* C28 for a literal without a fraction part
UnderscoresSkippedNoFraction ==
    (op = "ReadPlain" /\ HasUnderscore(text) /\ ~HasPad(text)
        /\ \A i \in 1 .. Len(text) : text[i] # ".") =>
        IF PrefixLen(text) > 0 /\ "STRICT_R7RS" \notin flags
        THEN result = third /\ SCM_NUMBERP(result)
        ELSE SCM_FALSEP(result)


\* C29: for every exact integer i, Scm_IntegerFitsOffsetP, Scm_IntegerFitsSsizeP
\* and Scm_IntegerFitsPtrdiffP are true exactly when i is in the signed range
\* of the type, which is the range of a long, and the conversion of an
\* integer that fits returns it without an error.
FitsSystemRange ==
    /\ (op \in {"IntegerFits", "IntegerTo"} /\ SCM_INTEGERP(lhs)) =>
           (result.v = 1 <=> InLong(lhs.v))
    /\ (op = "IntegerTo" /\ SCM_INTEGERP(lhs)) => third = CInt(lhs.v, FALSE)

\* C29 within the Fixint range, where no bound of a type is met
FitsSystemRangeFixint ==
    /\ (op \in {"IntegerFits", "IntegerTo"} /\ SCM_INTP(lhs)) => result.v = 1
    /\ (op = "IntegerTo" /\ SCM_INTP(lhs)) => third = CInt(lhs.v, FALSE)

\* the integer a Flonum or a Ratnum truncates to
Truncated(x) ==
    IF SCM_FLONUMP(x) THEN CDiv(DUnits(x.d), DIntUnits) ELSE CDiv(x.numer.v, x.denom.v)

\* the range of the extractor named by op
ExtractRange(o) ==
    IF o = "GetInteger8Clamp" THEN -Pow2(Int8Bits - 1) .. Pow2(Int8Bits - 1) - 1
    ELSE IF o = "GetIntegerU8Clamp" THEN 0 .. Pow2(Int8Bits) - 1
    ELSE IF o = "GetInteger16Clamp" THEN -Pow2(Int16Bits - 1) .. Pow2(Int16Bits - 1) - 1
    ELSE IF o = "GetIntegerU16Clamp" THEN 0 .. Pow2(Int16Bits) - 1
    ELSE IF o = "GetInteger32Clamp" THEN -Pow2(Int32Bits - 1) .. Pow2(Int32Bits - 1) - 1
    ELSE IF o = "GetIntegerU32Clamp" THEN 0 .. Pow2(Int32Bits) - 1
    ELSE IF o = "GetIntegerClamp" THEN LONG_MIN .. LONG_MAX
    ELSE 0 .. ULONG_MAX

Extractors ==
    {"GetInteger8Clamp", "GetIntegerU8Clamp", "GetInteger16Clamp", "GetIntegerU16Clamp",
     "GetInteger32Clamp", "GetIntegerU32Clamp", "GetIntegerClamp", "GetIntegerUClamp"}

\* a finite Flonum, or a Ratnum that a double holds exactly, that truncates
\* into the target range; Scm_GetIntegerUClamp tests the sign before it
\* truncates
TruncatesInto(x, o) ==
    /\ \/ SCM_RATNUMP(x) /\ IAbs(x.numer.v) < Pow2(DblPrec)
       \/ SCM_FLONUMP(x) /\ DIsFin(x.d)
    /\ Truncated(x) \in ExtractRange(o)
    /\ o = "GetIntegerUClamp" => Scm_Sign(x) >= 0

\* C30: every extractor, the 32-bit ones included, returns the truncated
\* value of a Flonum or Ratnum that truncates into its range, under every
\* clamp policy, without an error and without the out-of-range flag.
ExtractTruncated ==
    (op \in Extractors /\ TruncatesInto(lhs, op)) => result = CInt(Truncated(lhs), FALSE)

\* C30 for the extractors other than the 32-bit ones
ExtractTruncatedOtherWidths ==
    (op \in Extractors \ {"GetInteger32Clamp", "GetIntegerU32Clamp"} /\ TruncatesInto(lhs, op))
        => result = CInt(Truncated(lhs), FALSE)
=============================================================================
